---- MODULE Spec2Model ----
(***************************************************************************)
(* Verification model of the NLP-QGIS command interpretation and safety    *)
(* pipeline: the transaction logger with state snapshots, the structured   *)
(* error logger, the validation / prevention engine, the plugin's          *)
(* validate-then-execute gate and the interpretation cache.                *)
(***************************************************************************)
EXTENDS Integers, Sequences, FiniteSets, TLC

(***************************************************************************)
(* Bounds of the model.                                                    *)
(***************************************************************************)
\* retention limit handed to TransactionLogger(log_dir, max_stored_states)
max_stored_states == 1
\* log_operation calls per behaviour
MaxTx == 3
\* log_error / log_action calls per behaviour
MaxRecords == 3
\* clock ticks (distinct datetime.now() readings) per time.time() second
TicksPerSec == 3
MaxIssues == 3
MaxTexts == 155

(***************************************************************************)
(* Values.                                                                 *)
(***************************************************************************)
None == "None"
NoId == <<>>
\* state_data arguments: None, the empty dict, a non-empty dict and a dict
\* holding an object pickle cannot serialise
EmptyState == "{}"
Unpicklable == "unpicklable"
StateData == {None, EmptyState, "s1", Unpicklable}
\* content of a blob file whose pickle stream is truncated
CorruptBlob == "corrupt"
OperationTypes == {"buffer", "clip"}

VARIABLES
    constructed,            \* TransactionLogger.__init__ has run
    transaction_log_file,   \* transaction_log.json on disk
    backups,                \* transaction_log.json.bak.<sec> files on disk
    transactions,           \* self.transactions
    blobs,                  \* states/state_<state_id>.pickle files on disk
    clock,                  \* wall clock, in ticks
    ret,                    \* the last call and what it returned
    history                 \* per record: the state_data its call saved, and whether pruning took it

txVars == <<constructed, transaction_log_file, backups, transactions, blobs, clock, ret, history>>

VARIABLES
    logger_constructed,     \* StructuredErrorLogger.__init__ has returned
    error_log_file,         \* error_log.json on disk
    error_backups,          \* error_log.json.bak.<sec> files on disk
    error_records,          \* self.error_records
    logger_ret              \* the last StructuredErrorLogger call and its outcome

errVars == <<logger_constructed, error_log_file, error_backups, error_records, logger_ret>>

VARIABLES
    issues_arg,             \* the issue list handed to should_prevent_execution
    prevent_ret             \* the list it was last called on and what it returned

issVars == <<issues_arg, prevent_ret>>

VARIABLES
    components,             \* which optional components the plugin holds
    pc,                     \* where the plugin is with the current command
    command,                \* parse_query's result for the command, and its context
    processed_query,        \* what process_query handed to processing_finished
    outcome                 \* what _on_processing_finished did

plugVars == <<components, pc, command, processed_query, outcome>>

VARIABLES
    query_cache,            \* NLPEngine.query_cache, in insertion order
    texts_seen,             \* number of distinct command texts submitted so far
    engine_ret              \* the last process_command call and its result

cacheVars == <<query_cache, texts_seen, engine_ret>>

VARIABLES
    heap,                   \* the parameters dicts of the engine's results, by address
    parser_active_layers,   \* context_parser.active_layers
    first_returned,         \* per cache key, the result of the miss as it was returned
    stages,                 \* the last query: what each step of the chain made of it
    verdict                 \* ErrorSystem.validate_nlp_command on the last processed query

engVars == <<heap, parser_active_layers, first_returned, stages, verdict>>

VARIABLES
    callers                 \* per thread inside process_command: where it is, and its locals

thrVars == <<callers>>

VARIABLES
    log_records,            \* the logger's list in memory (transactions / error_records)
    log_file,               \* the bytes of the log file, as JSON tokens
    appenders               \* per calling thread: where it is in its call, and its file object

logVars == <<log_records, log_file, appenders>>

VARIABLES
    risk_rules,             \* ProactiveErrorPrevention.risk_rules, in registration order
    risks_ret               \* the last check_operation_risks call and how it ended

ruleVars == <<risk_rules, risks_ret>>

VARIABLES
    validated_intent,       \* the intent the validators are called with
    validate_query_ret,     \* what NLPQueryParser.validate_query returned for it
    prevention_ret,         \* what ProactiveErrorPrevention.validate_nlp_command returned
    error_system_ret        \* how ErrorSystem.validate_nlp_command ended

valVars == <<validated_intent, validate_query_ret, prevention_ret, error_system_ret>>

VARIABLES
    resolve_call,           \* the arguments of a resolve_parameters call
    resolve_ret             \* the dict resolve_parameters returned

resVars == <<resolve_call, resolve_ret>>

VARIABLES
    sequence_call,          \* the batch handed to optimize_query_sequence
    sequence_ret            \* the list optimize_query_sequence returned

seqVars == <<sequence_call, sequence_ret>>

VARIABLES
    project,                \* QueryOptimizer.project: the statistics of its layers, by name
    intents,                \* the intent dicts the caller holds, in order of creation
    objects,                \* the dicts and lists the intents refer to, by address
    frame_call              \* the last optimizer call: its input and the input's value before

frmVars == <<project, intents, objects, frame_call>>

vars == <<txVars, errVars, issVars, plugVars, cacheVars, engVars, thrVars, logVars, ruleVars, valVars, resVars, seqVars, frmVars>>
otherThanTx == <<errVars, issVars, plugVars, cacheVars, engVars, thrVars, logVars, ruleVars, valVars, resVars, seqVars, frmVars>>
otherThanErrTx == <<issVars, plugVars, cacheVars, engVars, thrVars, logVars, ruleVars, valVars, resVars, seqVars, frmVars>>
otherThanIss == <<txVars, errVars, plugVars, cacheVars, engVars, thrVars, logVars, ruleVars, valVars, resVars, seqVars, frmVars>>
otherThanPlug == <<txVars, errVars, issVars, cacheVars, engVars, thrVars, logVars, ruleVars, valVars, resVars, seqVars, frmVars>>
otherThanCache == <<txVars, errVars, issVars, plugVars, engVars, thrVars, logVars, ruleVars, valVars, resVars, seqVars, frmVars>>

(***************************************************************************)
(* error_system/transaction_log.py                                         *)
(***************************************************************************)
\* hashlib.md5(operation_type.encode()).hexdigest()[:8]
hash8(operation_type) ==
    CASE operation_type = "buffer" -> "7f2db423"
      [] operation_type = "clip" -> "f6d8b886"
      [] operation_type = "select" -> "99938282"
      [] OTHER -> "1708de0a"

\* int(time.time())
time_time(clk) == clk \div TicksPerSec

\* f"tx_{int(time.time())}_{md5[:8]}"
transaction_id_of(clk, operation_type) == <<"tx", time_time(clk), hash8(operation_type)>>

\* f"state_{transaction_id}"
state_id_of(transaction_id) == <<"state", transaction_id>>

_get_state_snapshot_path(state_id) == <<"states", "state", state_id, "pickle">>

AbsentFile == [exists |-> FALSE, valid |-> FALSE, content |-> <<>>]
CorruptFile == [exists |-> TRUE, valid |-> FALSE, content |-> <<>>]
EmptyListFile == [exists |-> TRUE, valid |-> TRUE, content |-> <<>>]

\* json.dump(self.transactions, f) into a file opened with 'w'
_save_transaction_log(txs) == [exists |-> TRUE, valid |-> TRUE, content |-> txs]

\* variant: the unreadable file is removed instead of renamed
_load_transaction_log_remove(file, bks, clk) ==
    IF file.exists /\ file.valid
    THEN [transactions |-> file.content, file |-> file, backups |-> bks, raised |-> FALSE]
    ELSE [transactions |-> <<>>, file |-> AbsentFile, backups |-> bks, raised |-> FALSE]

\* returns the in-memory list, the file left on disk and the backups on disk
_load_transaction_log(file, bks, clk) ==
    IF file.exists
    THEN IF file.valid
         THEN [transactions |-> file.content, file |-> file, backups |-> bks, raised |-> FALSE]
         ELSE [transactions |-> <<>>,
               file |-> AbsentFile,
               backups |-> {b \in bks : b.suffix # time_time(clk)}
                              \cup {[suffix |-> time_time(clk), content |-> file]},
               raised |-> FALSE]
    ELSE [transactions |-> <<>>, file |-> file, backups |-> bks, raised |-> FALSE]

Restrict(f, S) == [x \in S |-> f[x]]

\* indices of the records that carry a snapshot
StateTransactions(txs) == {i \in 1..Len(txs) : txs[i].has_state_snapshot}

\* position (from 0) of record i in state_transactions after the stable
\* sort by timestamp, newest first
Rank(txs, i) ==
    Cardinality({j \in StateTransactions(txs) :
        \/ txs[j].timestamp > txs[i].timestamp
        \/ (txs[j].timestamp = txs[i].timestamp /\ j < i)})

_cleanup_old_states(txs, bl) ==
    LET states_to_remove == {i \in StateTransactions(txs) : Rank(txs, i) >= max_stored_states}
        flipped == {i \in states_to_remove : txs[i].state_id # NoId}
        removed_paths == {_get_state_snapshot_path(txs[i].state_id) : i \in flipped}
        newtxs == [i \in 1..Len(txs) |->
                     IF i \in flipped
                     THEN [txs[i] EXCEPT !.has_state_snapshot = FALSE]
                     ELSE txs[i]]
    IN [transactions |-> newtxs,
        blobs |-> Restrict(bl, DOMAIN bl \ removed_paths),
        file |-> _save_transaction_log(newtxs),
        flipped |-> flipped]

log_operation(txs, bl, file, clk, operation_type, save_state, state_data) ==
    LET transaction_id == transaction_id_of(clk, operation_type)
        transaction == [transaction_id |-> transaction_id,
                        timestamp |-> clk,
                        operation_type |-> operation_type,
                        has_state_snapshot |-> FALSE,
                        state_id |-> NoId]
        state_id == state_id_of(transaction_id)
        state_path == _get_state_snapshot_path(state_id)
    IN IF save_state /\ state_data # None
       THEN IF state_data = Unpicklable
            THEN \* open(state_path, 'wb') truncates, pickle.dump raises
                 LET newtxs == Append(txs, transaction)
                 IN [transaction_id |-> transaction_id,
                     transactions |-> newtxs,
                     blobs |-> [p \in DOMAIN bl \cup {state_path} |->
                                  IF p = state_path THEN CorruptBlob ELSE bl[p]],
                     file |-> _save_transaction_log(newtxs),
                     flipped |-> {},
                     saved |-> None]
            ELSE LET written == [p \in DOMAIN bl \cup {state_path} |->
                                   IF p = state_path THEN state_data ELSE bl[p]]
                     c == _cleanup_old_states(txs, written)
                     newtxs == Append(c.transactions,
                                 [transaction EXCEPT !.has_state_snapshot = TRUE,
                                                     !.state_id = state_id])
                 IN [transaction_id |-> transaction_id,
                     transactions |-> newtxs,
                     blobs |-> c.blobs,
                     file |-> _save_transaction_log(newtxs),
                     flipped |-> c.flipped,
                     saved |-> state_data]
       ELSE LET newtxs == Append(txs, transaction)
            IN [transaction_id |-> transaction_id,
                transactions |-> newtxs,
                blobs |-> bl,
                file |-> _save_transaction_log(newtxs),
                flipped |-> {},
                saved |-> None]

\* index of the first record with this transaction_id, 0 when there is none
FindTransaction(txs, transaction_id) ==
    LET hits == {i \in 1..Len(txs) : txs[i].transaction_id = transaction_id}
    IN IF hits = {} THEN 0 ELSE CHOOSE i \in hits : \A j \in hits : i <= j

get_state_snapshot(txs, bl, file, transaction_id) ==
    LET i == FindTransaction(txs, transaction_id)
    IN IF i = 0
       THEN [data |-> None, transactions |-> txs, file |-> file]
       ELSE IF ~txs[i].has_state_snapshot
       THEN [data |-> None, transactions |-> txs, file |-> file]
       ELSE IF txs[i].state_id = NoId
       THEN [data |-> None, transactions |-> txs, file |-> file]
       ELSE IF _get_state_snapshot_path(txs[i].state_id) \notin DOMAIN bl
       THEN LET newtxs == [txs EXCEPT ![i].has_state_snapshot = FALSE]
            IN [data |-> None, transactions |-> newtxs, file |-> _save_transaction_log(newtxs)]
       ELSE IF bl[_get_state_snapshot_path(txs[i].state_id)] = CorruptBlob
       THEN [data |-> None, transactions |-> txs, file |-> file]
       ELSE [data |-> bl[_get_state_snapshot_path(txs[i].state_id)],
             transactions |-> txs, file |-> file]

rollback_to_transaction(txs, bl, file, transaction_id) ==
    get_state_snapshot(txs, bl, file, transaction_id)

\* Python truth value of a loaded state_data
Truthy(data) == data # None /\ data # EmptyState

\* the ids of state_transactions, sorted newest first
SortedStateIds(txs) ==
    [k \in 1..Cardinality(StateTransactions(txs)) |->
        txs[CHOOSE i \in StateTransactions(txs) : Rank(txs, i) = k - 1].transaction_id]

RECURSIVE LatestLoop(_, _, _, _, _)
LatestLoop(ids, k, txs, bl, file) ==
    IF k > Len(ids)
    THEN [id |-> NoId, data |-> None, transactions |-> txs, file |-> file]
    ELSE LET r == get_state_snapshot(txs, bl, file, ids[k])
         IN IF Truthy(r.data)
            THEN [id |-> ids[k], data |-> r.data, transactions |-> r.transactions, file |-> r.file]
            ELSE LatestLoop(ids, k + 1, r.transactions, bl, r.file)

get_latest_state_snapshot(txs, bl, file) ==
    IF StateTransactions(txs) = {}
    THEN [id |-> NoId, data |-> None, transactions |-> txs, file |-> file]
    ELSE LatestLoop(SortedStateIds(txs), 1, txs, bl, file)

(***************************************************************************)
(* The transaction logger as a state machine.                              *)
(***************************************************************************)
Ret(op, id, data, save, raised) ==
    [op |-> op, id |-> id, data |-> data, save |-> save, raised |-> raised]

\* the clock moves on between two calls: to the next tick, or into the next second
Later(clk) == {clk + 1, (time_time(clk) + 1) * TicksPerSec}

IdleTx ==
    /\ constructed = FALSE
    /\ transaction_log_file = AbsentFile
    /\ backups = {}
    /\ transactions = <<>>
    /\ blobs = <<>>
    /\ clock = 0
    /\ ret = Ret("none", NoId, None, FALSE, FALSE)
    /\ history = <<>>

InitTx ==
    /\ constructed = FALSE
    /\ transaction_log_file \in {AbsentFile, CorruptFile, EmptyListFile}
    /\ backups = {}
    /\ transactions = <<>>
    /\ blobs = <<>>
    /\ clock = 0
    /\ ret = Ret("none", NoId, None, FALSE, FALSE)
    /\ history = <<>>

\* what a constructor finds at the path of its log file
FoundOnDisk(file) ==
    IF ~file.exists THEN "absent" ELSE IF file.valid THEN "valid" ELSE "invalid json"

\* TransactionLogger.__init__
TransactionLogger__init__ ==
    /\ ~constructed
    /\ LET l == _load_transaction_log(transaction_log_file, backups, clock)
       IN /\ constructed' = ~l.raised
          /\ transactions' = l.transactions
          /\ transaction_log_file' = l.file
          /\ backups' = l.backups
          /\ ret' = Ret("__init__", NoId, FoundOnDisk(transaction_log_file), FALSE, l.raised)
    /\ clock' \in Later(clock)
    /\ UNCHANGED <<blobs, history>>
    /\ UNCHANGED otherThanTx

LogOperation ==
    /\ constructed
    /\ Len(transactions) < MaxTx
    /\ \E operation_type \in OperationTypes, save_state \in BOOLEAN, state_data \in StateData :
         LET r == log_operation(transactions, blobs, transaction_log_file, clock,
                                operation_type, save_state, state_data)
         IN /\ transactions' = r.transactions
            /\ blobs' = r.blobs
            /\ transaction_log_file' = r.file
            /\ ret' = Ret("log_operation", r.transaction_id, state_data, save_state, FALSE)
            /\ history' = Append([i \in 1..Len(history) |->
                                    IF i \in r.flipped
                                    THEN [history[i] EXCEPT !.pruned = TRUE]
                                    ELSE history[i]],
                                 [saved |-> r.saved, pruned |-> FALSE])
    /\ clock' \in Later(clock)
    /\ UNCHANGED <<constructed, backups>>
    /\ UNCHANGED otherThanTx

KnownIds == {transactions[i].transaction_id : i \in 1..Len(transactions)}

GetStateSnapshot ==
    /\ constructed
    /\ \E id \in KnownIds \cup {transaction_id_of(clock, "select")} :
         LET r == get_state_snapshot(transactions, blobs, transaction_log_file, id)
         IN /\ transactions' = r.transactions
            /\ transaction_log_file' = r.file
            /\ ret' = Ret("get_state_snapshot", id, r.data, FALSE, FALSE)
    /\ UNCHANGED <<constructed, backups, blobs, clock, history>>
    /\ UNCHANGED otherThanTx

RollbackToTransaction ==
    /\ constructed
    /\ \E id \in KnownIds :
         LET r == rollback_to_transaction(transactions, blobs, transaction_log_file, id)
         IN /\ transactions' = r.transactions
            /\ transaction_log_file' = r.file
            /\ ret' = Ret("rollback_to_transaction", id, r.data, FALSE, FALSE)
    /\ UNCHANGED <<constructed, backups, blobs, clock, history>>
    /\ UNCHANGED otherThanTx

GetLatestStateSnapshot ==
    /\ constructed
    /\ LET r == get_latest_state_snapshot(transactions, blobs, transaction_log_file)
       IN /\ transactions' = r.transactions
          /\ transaction_log_file' = r.file
          /\ ret' = Ret("get_latest_state_snapshot", r.id, r.data, FALSE, FALSE)
    /\ UNCHANGED <<constructed, backups, blobs, clock, history>>
    /\ UNCHANGED otherThanTx

NextTx ==
    \/ TransactionLogger__init__
    \/ LogOperation
    \/ GetStateSnapshot
    \/ RollbackToTransaction
    \/ GetLatestStateSnapshot


(***************************************************************************)
(* error_system/error_logger.py                                            *)
(***************************************************************************)
ErrorTypes == {"execution_error", "state_capture_error"}
ActionTypes == {"buffer", "rollback"}

\* json.dump(self.error_records, f) into a file opened with 'w'
_save_records(records) == [exists |-> TRUE, valid |-> TRUE, content |-> records]

\* has_logger: self.logger has been assigned when the method runs; the except
\* branch calls self.logger.warning before it renames the file
_load_existing_records(file, bks, clk, has_logger) ==
    IF file.exists
    THEN IF file.valid
         THEN [records |-> file.content, file |-> file, backups |-> bks, raised |-> FALSE]
         ELSE IF ~has_logger
              THEN \* AttributeError: no attribute 'logger', raised inside the handler
                   [records |-> <<>>, file |-> file, backups |-> bks, raised |-> TRUE]
              ELSE [records |-> <<>>,
                    file |-> AbsentFile,
                    backups |-> {b \in bks : b.suffix # time_time(clk)}
                                   \cup {[suffix |-> time_time(clk), content |-> file]},
                    raised |-> FALSE]
    ELSE [records |-> <<>>, file |-> file, backups |-> bks, raised |-> FALSE]

log_error(records, clk, error_type) ==
    Append(records, [timestamp |-> clk, kind |-> "error", type |-> error_type])

log_action(records, clk, action_type) ==
    Append(records, [timestamp |-> clk, kind |-> "action", type |-> action_type])

LoggerRet(op, found, raised) == [op |-> op, found |-> found, raised |-> raised]

IdleIss ==
    /\ issues_arg = <<>>
    /\ prevent_ret = [op |-> "none", issues |-> <<>>, value |-> FALSE]

IdlePlug ==
    /\ components = [error_system |-> FALSE, qgis_integration |-> FALSE]
    /\ pc = "idle"
    /\ command = <<>>
    /\ processed_query = <<>>
    /\ outcome = [handler |-> "none", raised |-> FALSE, is_valid |-> FALSE, issues |-> <<>>,
                  suggestions |-> <<>>, executed |-> FALSE, success |-> FALSE]

IdleCache ==
    /\ query_cache = <<>>
    /\ texts_seen = 0
    /\ engine_ret = [op |-> "none", key |-> <<>>, result |-> <<>>]

IdleErr ==
    /\ logger_constructed = FALSE
    /\ error_log_file = AbsentFile
    /\ error_backups = {}
    /\ error_records = <<>>
    /\ logger_ret = LoggerRet("none", "absent", FALSE)

NoStages == [status |-> "none"]
NoVerdict == [status |-> "none"]

IdleEng ==
    /\ heap = <<>>
    /\ parser_active_layers = <<>>
    /\ first_returned = <<>>
    /\ stages = NoStages
    /\ verdict = NoVerdict

IdleThr == callers = <<>>

IdleLog ==
    /\ log_records = <<>>
    /\ log_file = <<>>
    /\ appenders = <<>>

\* a rule: its id, the name of its detection function, the operations it
\* applies to ({"*"} for '*')
RiskRule(rule_id, detection_func, applicable_ops) ==
    [rule_id |-> rule_id, detection_func |-> detection_func,
     applicable_ops |-> applicable_ops]

\* the rules _initialize_default_rules registers
default_rules ==
    <<RiskRule("buffer_distance_too_large", "buffer_distance_too_large", {"buffer"}),
      RiskRule("complex_geometry", "complex_geometry",
               {"clip", "intersection", "union", "buffer"}),
      RiskRule("missing_required_parameters", "_check_missing_required_parameters", {"*"}),
      RiskRule("error_prone_operation", "_check_if_error_prone_operation", {"*"})>>

NoRisks == [op |-> "none"]

IdleRule ==
    /\ risk_rules = default_rules
    /\ risks_ret = NoRisks

NotCalled == [called |-> FALSE]

IdleVal ==
    /\ validated_intent = <<>>
    /\ validate_query_ret = NotCalled
    /\ prevention_ret = NotCalled
    /\ error_system_ret = NotCalled

IdleRes ==
    /\ resolve_call = <<>>
    /\ resolve_ret = NotCalled

IdleSeq ==
    /\ sequence_call = <<>>
    /\ sequence_ret = NotCalled

IdleFrm ==
    /\ project = <<>>
    /\ intents = <<>>
    /\ objects = <<>>
    /\ frame_call = NotCalled

Init == InitTx /\ IdleErr /\ IdleIss /\ IdlePlug /\ IdleCache /\ IdleEng /\ IdleThr /\ IdleLog /\ IdleRule /\ IdleVal /\ IdleRes /\ IdleSeq /\ IdleFrm
Next == NextTx
Spec == Init /\ [][Next]_vars

InitErr ==
    /\ logger_constructed = FALSE
    /\ error_log_file \in {AbsentFile, CorruptFile, EmptyListFile}
    /\ error_backups = {}
    /\ error_records = <<>>
    /\ logger_ret = LoggerRet("none", "absent", FALSE)
    /\ IdleTx /\ IdleIss /\ IdlePlug /\ IdleCache /\ IdleEng /\ IdleThr /\ IdleLog /\ IdleRule /\ IdleVal /\ IdleRes /\ IdleSeq /\ IdleFrm

\* StructuredErrorLogger.__init__: error_records is loaded (line 43) before
\* self.logger is assigned (line 46)
StructuredErrorLogger__init__ ==
    /\ ~logger_constructed
    /\ logger_ret.op = "none"
    /\ LET l == _load_existing_records(error_log_file, error_backups, clock, FALSE)
       IN /\ logger_constructed' = ~l.raised
          /\ error_records' = l.records
          /\ error_log_file' = l.file
          /\ error_backups' = l.backups
          /\ logger_ret' = LoggerRet("__init__", FoundOnDisk(error_log_file), l.raised)
    /\ clock' \in Later(clock)
    /\ UNCHANGED <<constructed, transaction_log_file, backups, transactions, blobs, ret, history>>
    /\ UNCHANGED otherThanErrTx

LogError ==
    /\ logger_constructed
    /\ Len(error_records) < MaxRecords
    /\ \E error_type \in ErrorTypes :
         /\ error_records' = log_error(error_records, clock, error_type)
         /\ error_log_file' = _save_records(error_records')
         /\ logger_ret' = LoggerRet("log_error", FoundOnDisk(error_log_file), FALSE)
    /\ clock' \in Later(clock)
    /\ UNCHANGED <<logger_constructed, error_backups>>
    /\ UNCHANGED <<constructed, transaction_log_file, backups, transactions, blobs, ret, history>>
    /\ UNCHANGED otherThanErrTx

LogAction ==
    /\ logger_constructed
    /\ Len(error_records) < MaxRecords
    /\ \E action_type \in ActionTypes :
         /\ error_records' = log_action(error_records, clock, action_type)
         /\ error_log_file' = _save_records(error_records')
         /\ logger_ret' = LoggerRet("log_action", FoundOnDisk(error_log_file), FALSE)
    /\ clock' \in Later(clock)
    /\ UNCHANGED <<logger_constructed, error_backups>>
    /\ UNCHANGED <<constructed, transaction_log_file, backups, transactions, blobs, ret, history>>
    /\ UNCHANGED otherThanErrTx

NextErr ==
    \/ StructuredErrorLogger__init__
    \/ LogError
    \/ LogAction

SpecErr == InitErr /\ [][NextErr]_vars

(***************************************************************************)
(* Dictionaries: a dict is a function on the set of its keys.              *)
(***************************************************************************)
Has(d, k) == k \in DOMAIN d
GetOr(d, k, default) == IF k \in DOMAIN d THEN d[k] ELSE default
With(d, k, v) == [x \in DOMAIN d \cup {k} |-> IF x = k THEN v ELSE d[x]]
Update(d, e) == [x \in DOMAIN d \cup DOMAIN e |-> IF x \in DOMAIN e THEN e[x] ELSE d[x]]
EmptyDict == <<>>
\* not d.get(k), for string-valued keys
Falsy(d, k) == ~Has(d, k) \/ d[k] = "" \/ d[k] = None

(***************************************************************************)
(* error_system/prevention.py                                              *)
(***************************************************************************)
\* confidence is kept in hundredths
LowConfidence == 60
LargeBufferDistance == 10000

\* 'most_common_preceding_operation' values of error_stats.json; no record
\* the loggers write carries 'preceding_operation', so there is none
ErrorProneOperations == {}

required_params(operation_type) ==
    CASE operation_type = "buffer" -> {"input_layer", "distance"}
      [] operation_type \in {"clip", "intersection", "union"} -> {"input_layer", "overlay_layer"}
      [] operation_type = "select" -> {"input_layer", "expression"}
      [] OTHER -> {}

_check_missing_required_parameters(operation_type, parameters) ==
    \E param \in required_params(operation_type) : ~Has(parameters, param)

_check_if_error_prone_operation(operation_type, parameters) ==
    operation_type \in ErrorProneOperations

Risk(rule_id, message) == [rule_id |-> rule_id, message |-> message, severity |-> "warning"]

check_operation_risks(operation_type, parameters) ==
    (IF operation_type \in {"buffer"}
        /\ operation_type = "buffer" /\ GetOr(parameters, "distance", 0) > LargeBufferDistance
     THEN <<Risk("buffer_distance_too_large", "buffer distance is very large")>> ELSE <<>>)
    \o
    (IF operation_type \in {"clip", "intersection", "union", "buffer"}
        /\ Has(parameters, "input_layer")
        /\ GetOr(parameters, "input_layer_feature_count", 0) > 10000
     THEN <<Risk("complex_geometry", "more than 10,000 features")>> ELSE <<>>)
    \o
    (IF _check_missing_required_parameters(operation_type, parameters)
     THEN <<Risk("missing_required_parameters", "missing required parameters")>> ELSE <<>>)
    \o
    (IF _check_if_error_prone_operation(operation_type, parameters)
     THEN <<Risk("error_prone_operation", "frequently caused errors")>> ELSE <<>>)

Issue(type, message, severity) == [type |-> type, message |-> message, severity |-> severity]

validate_nlp_command(nlp_result) ==
    LET operation == nlp_result.operation
        parameters == nlp_result.parameters
        risk_params == Update([input_layer |-> nlp_result.input_layer,
                               secondary_layer |-> nlp_result.secondary_layer],
                              parameters)
    IN IF operation = None \/ operation = "unknown"
       THEN <<Issue("unrecognized_operation", "operation type not recognized", "error")>>
       ELSE (IF nlp_result.confidence < LowConfidence
             THEN <<Issue("low_confidence", "low confidence", "warning")>> ELSE <<>>)
            \o
            (IF nlp_result.input_layer = None
             THEN <<Issue("missing_input_layer", "no input layer", "error")>> ELSE <<>>)
            \o
            (IF operation = "buffer" /\ ~Has(parameters, "distance")
             THEN <<Issue("missing_parameter", "no buffer distance", "error")>>
             ELSE IF operation \in {"clip", "intersection", "union"}
                     /\ nlp_result.secondary_layer = None
             THEN <<Issue("missing_secondary_layer", "no overlay layer", "error")>>
             ELSE IF operation = "select" /\ nlp_result.spatial_relationship = None
                     /\ Falsy(parameters, "expression")
             THEN <<Issue("missing_selection_criteria", "no selection criteria", "warning")>>
             ELSE <<>>)
            \o
            check_operation_risks(operation, risk_params)

\* any(issue['severity'] == 'error' for issue in issues)
RECURSIVE AnyError(_)
AnyError(issues) ==
    IF issues = <<>> THEN FALSE
    ELSE IF Head(issues).severity = "error" THEN TRUE
    ELSE AnyError(Tail(issues))

\* variant: only the first issue decides
should_prevent_execution_first(issues) ==
    issues # <<>> /\ Head(issues).severity = "error"

should_prevent_execution(issues) == AnyError(issues)

_get_available_layers == <<"roads", "buildings", "rivers", "land_use">>

\* the suggestion one issue adds; issue['type'] raises KeyError on a missing key
SuggestionFor(operation, nlp_result, issue) ==
    IF issue.type = "missing_input_layer"
    THEN <<[text |-> "try specifying a layer name", operation |-> operation,
            layers |-> SubSeq(_get_available_layers, 1, 3)]>>
    ELSE IF issue.type = "missing_secondary_layer"
            /\ operation \in {"clip", "intersection", "union"}
    THEN <<[text |-> "try specifying which layer to use with", operation |-> operation,
            layers |-> SubSeq(_get_available_layers, 1, 3)]>>
    ELSE IF issue.type = "missing_parameter" /\ operation = "buffer"
    THEN <<[text |-> "try specifying a buffer distance", operation |-> operation,
            layers |-> <<>>]>>
    ELSE IF issue.type = "buffer_distance_too_large"
    THEN <<[text |-> "try using a smaller buffer distance", operation |-> operation,
            layers |-> <<>>]>>
    ELSE <<>>

RECURSIVE SuggestionLoop(_, _, _, _)
SuggestionLoop(operation, nlp_result, issues, acc) ==
    IF issues = <<>>
    THEN [raised |-> FALSE, suggestions |-> acc]
    ELSE IF ~Has(Head(issues), "type")
    THEN [raised |-> TRUE, suggestions |-> <<>>]
    ELSE SuggestionLoop(operation, nlp_result, Tail(issues),
                        acc \o SuggestionFor(operation, nlp_result, Head(issues)))

get_alternative_suggestions(nlp_result, issues) ==
    SuggestionLoop(IF nlp_result.operation = None THEN "unknown" ELSE nlp_result.operation,
                   nlp_result, issues, <<>>)

(***************************************************************************)
(* error_system/__init__.py                                                *)
(***************************************************************************)
ErrorSystem_validate_nlp_command(nlp_result) ==
    LET issues == validate_nlp_command(nlp_result)
        s == IF issues # <<>>
             THEN get_alternative_suggestions(nlp_result, issues)
             ELSE [raised |-> FALSE, suggestions |-> <<>>]
    IN IF s.raised
       THEN [raised |-> TRUE, is_valid |-> FALSE, issues |-> issues, suggestions |-> <<>>]
       ELSE [raised |-> FALSE,
             is_valid |-> ~should_prevent_execution(issues),
             issues |-> issues,
             suggestions |-> s.suggestions]

(***************************************************************************)
(* query_engine/query_parser.py                                            *)
(***************************************************************************)
\* validate_query's issues carry severity and message only
QueryIssue(severity, message) == [severity |-> severity, message |-> message]

validate_query(parsed_query) ==
    LET operation == parsed_query.operation
        parameters == parsed_query.parameters
    IN IF operation = None \/ operation = "unknown"
       THEN <<QueryIssue("error", "unknown or missing operation type")>>
       ELSE (IF parsed_query.input_layer = None
             THEN <<QueryIssue("error", "no input layer specified")>> ELSE <<>>)
            \o
            (IF operation = "buffer"
             THEN IF ~Has(parameters, "distance")
                  THEN <<QueryIssue("error", "no buffer distance specified")>>
                  ELSE IF parameters["distance"] <= 0
                  THEN <<QueryIssue("warning", "buffer distance must be greater than zero")>>
                  ELSE IF parameters["distance"] > LargeBufferDistance
                  THEN <<QueryIssue("warning", "very large buffer distance")>>
                  ELSE <<>>
             ELSE IF operation \in {"clip", "intersection", "union"}
             THEN IF parsed_query.secondary_layer = None
                  THEN <<QueryIssue("error", "no overlay layer specified")>>
                  ELSE <<>>
             ELSE IF operation = "select"
             THEN IF ~Has(parameters, "expression") /\ parsed_query.spatial_relationship = None
                  THEN <<QueryIssue("error", "no selection criteria specified")>>
                  ELSE <<>>
             ELSE <<>>)
            \o
            (IF parsed_query.confidence < LowConfidence
             THEN <<QueryIssue("warning", "low confidence in query interpretation")>>
             ELSE <<>>)

(***************************************************************************)
(* query_engine/parameter_resolver.py                                      *)
(***************************************************************************)
parameter_defaults(operation_type) ==
    CASE operation_type = "buffer" ->
            [distance |-> 100, segments |-> 5, end_cap_style |-> 0, join_style |-> 0,
             miter_limit |-> 2, dissolve |-> FALSE]
      [] operation_type = "intersection" -> [input_fields |-> <<>>, overlay_fields |-> <<>>]
      [] OTHER -> EmptyDict

\* a context is a dict too; None and {} are both the empty dict.  The
\* cap_style / join_style translation acts on keys no modelled command carries.
_resolve_buffer_params(params, context) ==
    IF ~Has(params, "distance") /\ DOMAIN context # {}
    THEN IF Has(context, "scale")
         THEN With(params, "distance",
                   IF context["scale"] > 1000000 THEN 5000
                   ELSE IF context["scale"] > 100000 THEN 1000
                   ELSE IF context["scale"] > 10000 THEN 200
                   ELSE IF context["scale"] > 1000 THEN 50
                   ELSE 10)
         \* 1% of the mean view dimension, in whole map units
         ELSE IF Has(context, "extent")
         THEN With(params, "distance",
                   (((context["extent"].xmax - context["extent"].xmin)
                     + (context["extent"].ymax - context["extent"].ymin)) \div 2) \div 100)
         ELSE params
    ELSE params

\* the ordered re.sub list applied to the expressions of the modelled commands
TranslateExpression(expression) ==
    IF expression = "population greater than 5" THEN "population > 5" ELSE expression

_resolve_select_params(params, context) ==
    IF Has(params, "expression")
    THEN With(params, "expression", TranslateExpression(params["expression"]))
    ELSE params

resolve_parameters(operation_type, parsed_params, context) ==
    LET resolved_params == Update(parameter_defaults(operation_type), parsed_params)
    IN IF operation_type = "buffer" THEN _resolve_buffer_params(resolved_params, context)
       ELSE IF operation_type = "select" THEN _resolve_select_params(resolved_params, context)
       ELSE resolved_params

(***************************************************************************)
(* query_engine/query_optimizer.py, for layers the project has no          *)
(* statistics for (get_layer_statistics returns {})                        *)
(***************************************************************************)
get_layer_statistics(layer_name) == EmptyDict

_estimate_processing_time(operation, input_stats, secondary_stats) ==
    LET input_count == GetOr(input_stats, "feature_count", 0)
        secondary_count == GetOr(secondary_stats, "feature_count", 0)
    IN IF operation = "buffer"
       THEN IF input_count < 1000 THEN "< 5 seconds"
            ELSE IF input_count < 10000 THEN "5-30 seconds" ELSE "30+ seconds"
       ELSE IF operation \in {"clip", "intersection"}
       THEN IF input_count * (secondary_count + 1000) < 10000 * 1000 THEN "< 10 seconds"
            ELSE IF input_count * (secondary_count + 1000) < 100000 * 1000 THEN "10-60 seconds"
            ELSE "1+ minutes"
       ELSE IF operation = "select"
       THEN IF input_count < 5000 THEN "< 2 seconds"
            ELSE IF input_count < 50000 THEN "2-10 seconds" ELSE "10+ seconds"
       ELSE "Unknown"

Min(a, b) == IF a < b THEN a ELSE b

_optimize_buffer_query(query, layer_stats) ==
    LET params == query.parameters
        large == GetOr(layer_stats, "feature_count", 0) > 10000
        seg == IF large /\ (~Has(params, "segments") \/ params["segments"] > 5)
               THEN With(params, "segments", 5) ELSE params
        p1 == IF large /\ GetOr(seg, "dissolve", FALSE)
              THEN With(seg, "dissolve", FALSE) ELSE seg
        o0 == GetOr(query, "optimizations", EmptyDict)
        o1 == IF large
              THEN Update(o0, [reduced_segments |-> TRUE, disable_dissolve |-> TRUE,
                               reason |-> "Large dataset optimization"])
              ELSE o0
        small == GetOr(p1, "distance", 0) < 10
        p2 == IF small THEN With(p1, "segments", Min(GetOr(p1, "segments", 8), 4)) ELSE p1
        o2 == IF small THEN With(o1, "reduced_segments_small_buffer", TRUE) ELSE o1
        q1 == With(query, "parameters", p2)
    IN IF large \/ small \/ Has(query, "optimizations")
       THEN With(q1, "optimizations", o2)
       ELSE q1

optimize_query(query) ==
    LET operation == query.operation
        input_stats == IF query.input_layer # None
                       THEN get_layer_statistics(query.input_layer) ELSE EmptyDict
        secondary_stats == IF query.secondary_layer # None
                           THEN get_layer_statistics(query.secondary_layer) ELSE EmptyDict
        optimized == IF operation = "buffer"
                     THEN _optimize_buffer_query(query, input_stats)
                     ELSE query
        opts == Update(GetOr(optimized, "optimizations", EmptyDict),
                       [use_spatial_index |-> GetOr(input_stats, "has_spatial_index", FALSE),
                        estimated_processing_time |->
                            _estimate_processing_time(operation, input_stats, secondary_stats)])
    IN With(optimized, "optimizations", opts)

add_warnings_for_expensive_queries(query) ==
    IF Has(query, "warnings") THEN query ELSE With(query, "warnings", <<>>)

(***************************************************************************)
(* query_engine/__init__.py                                                *)
(***************************************************************************)
\* parsed_query is the result of self.parser.parse_query(query_text, context)
process_query(parsed_query, context) ==
    LET issues == validate_query(parsed_query)
        q1 == IF issues # <<>> THEN With(parsed_query, "validation_issues", issues)
              ELSE parsed_query
        operation == q1.operation
        q2 == IF operation # None /\ operation # "unknown"
              THEN With(q1, "parameters", resolve_parameters(operation, q1.parameters, context))
              ELSE q1
    IN With(add_warnings_for_expensive_queries(optimize_query(q2)),
            "original_text", parsed_query.original_text)

(***************************************************************************)
(* query_engine/query_parser.py: parse_query with an NLP engine.  The      *)
(* input is enhanced_result, what nlp_engine.process_command and           *)
(* _enhance_with_pattern_matching made of the text; a key the dict lacks   *)
(* reads as None, as with dict.get.                                        *)
(***************************************************************************)
VisibleLayers(active_layers) ==
    LET visible(layer) == layer.visible
        shown == SelectSeq(active_layers, visible)
    IN [i \in 1..Len(shown) |-> shown[i].name]

OtherLayers(active_layers, input_layer) ==
    LET other(layer) == layer.name # input_layer
        rest == SelectSeq(active_layers, other)
    IN [i \in 1..Len(rest) |-> rest[i].name]

SetParameter(result, k, v) == With(result, "parameters", With(result.parameters, k, v))

_fill_missing_parameters(result, context) ==
    IF DOMAIN context = {} THEN result
    ELSE
    LET operation == result.operation
        r1 == IF result.input_layer = None /\ context.active_layers # <<>>
              THEN IF context.selected_layer # None
                   THEN SetParameter(With(result, "input_layer", context.selected_layer),
                                     "auto_completed_input", TRUE)
                   ELSE IF VisibleLayers(context.active_layers) # <<>>
                   THEN SetParameter(With(result, "input_layer",
                                          VisibleLayers(context.active_layers)[1]),
                                     "auto_completed_input", TRUE)
                   ELSE result
              ELSE result
    IN IF operation = "buffer" /\ ~Has(r1.parameters, "distance")
       THEN IF context.scale # 0 /\ DOMAIN context.extent # {}
            THEN SetParameter(SetParameter(SetParameter(r1,
                     "distance",
                     (((context.extent.xmax - context.extent.xmin)
                       + (context.extent.ymax - context.extent.ymin)) \div 2) \div 100),
                     "unit", "meters"),
                     "auto_completed_distance", TRUE)
            ELSE r1
       ELSE IF operation \in {"clip", "intersection", "union"} /\ r1.secondary_layer = None
       THEN IF context.active_layers # <<>>
               /\ OtherLayers(context.active_layers, r1.input_layer) # <<>>
            THEN SetParameter(With(r1, "secondary_layer",
                                   OtherLayers(context.active_layers, r1.input_layer)[1]),
                              "auto_completed_secondary", TRUE)
            ELSE r1
       ELSE r1

\* active_layers[0] raises IndexError when the context lists no layer
parse_query(enhanced_result, context) ==
    IF DOMAIN context # {} /\ context.active_layers = <<>>
    THEN [raised |-> TRUE, result |-> enhanced_result]
    ELSE [raised |-> FALSE, result |-> _fill_missing_parameters(enhanced_result, context)]

(***************************************************************************)
(* plugin_main.py: one command through process_command, the processing     *)
(* thread and the finished / failed handlers.                              *)
(***************************************************************************)
Confidences == {50, 90}

ParameterDicts ==
    {EmptyDict} \cup {[distance |-> d] : d \in {0, 100, 20000}}
                \cup {[expression |-> e] : e \in {"", "population greater than 5"}}

EnhancedResults ==
    [operation : {"unknown", "buffer", "clip", "select"},
     input_layer : {None, "roads"},
     secondary_layer : {None, "parcels"},
     parameters : ParameterDicts,
     spatial_relationship : {None, "within"},
     confidence : Confidences,
     original_text : {"text"}]

Layer(name, visible) == [name |-> name, visible |-> visible]

\* what event_dispatcher.get_current_context() can return
CurrentContexts ==
    [active_layers : {<<>>, <<Layer("roads", FALSE)>>,
                      <<Layer("roads", TRUE), Layer("parcels", TRUE)>>},
     selected_layer : {None},
     crs : {"EPSG:4326"},
     extent : {[xmin |-> 0, ymin |-> 0, xmax |-> 1000, ymax |-> 1000]},
     scale : {5000}]
    \cup
    [active_layers : {<<Layer("roads", TRUE), Layer("parcels", TRUE)>>},
     selected_layer : {"roads"},
     crs : {"EPSG:4326"},
     extent : {[xmin |-> 0, ymin |-> 0, xmax |-> 1000, ymax |-> 1000]},
     scale : {0, 5000}]

Outcome(handler, raised, is_valid, issues, suggestions, executed, success) ==
    [handler |-> handler, raised |-> raised, is_valid |-> is_valid, issues |-> issues,
     suggestions |-> suggestions, executed |-> executed, success |-> success]

\* _init_components has run: each optional component is there or failed to load
InitPlug ==
    /\ components \in [error_system : BOOLEAN, qgis_integration : BOOLEAN]
    /\ pc = "idle"
    /\ command = <<>>
    /\ processed_query = <<>>
    /\ outcome = Outcome("none", FALSE, FALSE, <<>>, <<>>, FALSE, FALSE)
    /\ IdleTx /\ IdleErr /\ IdleIss /\ IdleCache /\ IdleEng /\ IdleThr /\ IdleLog /\ IdleRule /\ IdleVal /\ IdleRes /\ IdleSeq /\ IdleFrm

\* a non-empty command with the query engine available; the context is None
\* without qgis_integration or when get_current_context raises
process_command ==
    /\ pc \in {"idle", "done"}
    /\ \E enhanced_result \in EnhancedResults :
       \E context \in {EmptyDict} \cup
                      (IF components.qgis_integration THEN CurrentContexts ELSE {}) :
            command' = [enhanced_result |-> enhanced_result, context |-> context]
    /\ pc' = "processing"
    \* a new thread with no result yet; the result pane shows "Processing command..."
    /\ processed_query' = <<>>
    /\ outcome' = Outcome("none", FALSE, FALSE, <<>>, <<>>, FALSE, FALSE)
    /\ UNCHANGED components
    /\ UNCHANGED otherThanPlug

NLPProcessingThread_run ==
    /\ pc = "processing"
    /\ LET parsed == parse_query(command.enhanced_result, command.context)
       IN IF parsed.raised
          THEN /\ pc' = "failed"
               /\ UNCHANGED processed_query
          ELSE /\ pc' = "finished"
               /\ processed_query' = process_query(parsed.result, command.context)
    /\ UNCHANGED <<components, command, outcome>>
    /\ UNCHANGED otherThanPlug

_on_processing_finished ==
    /\ pc = "finished"
    /\ pc' = "done"
    /\ IF components.qgis_integration
       THEN LET v == IF components.error_system
                     THEN ErrorSystem_validate_nlp_command(processed_query)
                     ELSE [raised |-> FALSE,
                           is_valid |-> processed_query.operation # "unknown",
                           issues |-> <<>>, suggestions |-> <<>>]
            IN IF v.raised
               THEN outcome' = Outcome("finished", TRUE, FALSE, v.issues, <<>>, FALSE, FALSE)
               ELSE IF v.is_valid
               THEN \E success \in BOOLEAN :
                       outcome' = Outcome("finished", FALSE, TRUE, v.issues, v.suggestions,
                                          TRUE, success)
               ELSE outcome' = Outcome("finished", FALSE, FALSE, v.issues, v.suggestions,
                                       FALSE, FALSE)
       ELSE outcome' = Outcome("finished", FALSE, FALSE, <<>>, <<>>, FALSE, FALSE)
    /\ UNCHANGED <<components, command, processed_query>>
    /\ UNCHANGED otherThanPlug

_on_processing_failed ==
    /\ pc = "failed"
    /\ pc' = "done"
    /\ outcome' = Outcome("failed", TRUE, FALSE, <<>>, <<>>, FALSE, FALSE)
    /\ UNCHANGED <<components, command, processed_query>>
    /\ UNCHANGED otherThanPlug

NextPlug ==
    \/ process_command
    \/ NLPProcessingThread_run
    \/ _on_processing_finished
    \/ _on_processing_failed

SpecPlug == InitPlug /\ [][NextPlug]_vars

(***************************************************************************)
(* ProactiveErrorPrevention.should_prevent_execution applied to issue      *)
(* lists: those validate_nlp_command builds and lists of the same entries  *)
(* in any order.                                                           *)
(***************************************************************************)
IssuePool ==
    {Issue("missing_input_layer", "no input layer", "error"),
     Issue("low_confidence", "low confidence", "warning"),
     Issue("missing_selection_criteria", "no selection criteria", "warning"),
     Risk("missing_required_parameters", "operation is missing required parameters")}

IssueLists == UNION {[1..n -> IssuePool] : n \in 0..MaxIssues}

PreventRet(op, issues, value) == [op |-> op, issues |-> issues, value |-> value]

InitPrevent ==
    /\ issues_arg \in IssueLists
    /\ prevent_ret = PreventRet("none", <<>>, FALSE)
    /\ IdleTx /\ IdleErr /\ IdlePlug /\ IdleCache /\ IdleEng /\ IdleThr /\ IdleLog /\ IdleRule /\ IdleVal /\ IdleRes /\ IdleSeq /\ IdleFrm

ValidateNlpCommand ==
    /\ \E nlp_result \in EnhancedResults : issues_arg' = validate_nlp_command(nlp_result)
    /\ prevent_ret' = PreventRet("validate_nlp_command", issues_arg', FALSE)
    /\ UNCHANGED otherThanIss

ShouldPreventExecution ==
    /\ prevent_ret' = PreventRet("should_prevent_execution", issues_arg,
                                 should_prevent_execution(issues_arg))
    /\ UNCHANGED issues_arg
    /\ UNCHANGED otherThanIss

NextPrevent ==
    \/ ValidateNlpCommand
    \/ ShouldPreventExecution

SpecPrevent == InitPrevent /\ [][NextPrevent]_vars

(***************************************************************************)
(* nlp_engine/__init__.py: the interpretation cache of NLPEngine.          *)
(* query_cache is a dict; its entries are kept here in insertion order.    *)
(***************************************************************************)
max_cache_size == 100

\* a text is its wording and the casing it was typed in
Text(id, casing) == [id |-> id, casing |-> casing]
lower(text) == [text EXCEPT !.casing = "lower"]

LayerOrder == <<"land_use", "parcels", "rivers", "road_network", "roads">>

\* sorted(active_layers) for lists of distinct layer names
sorted(active_layers) ==
    LET listed(name) == \E i \in 1..Len(active_layers) : active_layers[i] = name
    IN SelectSeq(LayerOrder, listed)

\* active_layers None and [] both give [], current_crs None and "" both give ""
_generate_cache_key(text, active_layers, current_crs) ==
    <<lower(text), sorted(active_layers), IF current_crs = None THEN "" ELSE current_crs>>

InCache(cache, cache_key) == \E i \in 1..Len(cache) : cache[i].key = cache_key

Lookup(cache, cache_key) ==
    cache[CHOOSE i \in 1..Len(cache) : cache[i].key = cache_key].result

Without(d, k) == [x \in DOMAIN d \ {k} |-> d[x]]

\* variant: the newest entries are dropped instead of the oldest
_cache_result_keep_oldest(cache, cache_key, result) ==
    LET stored == Append(cache, [key |-> cache_key, result |-> Without(result, "from_cache")])
    IN IF Len(stored) > max_cache_size
       THEN SubSeq(stored, 1, 0 - ((-max_cache_size) \div 2))
       ELSE stored

\* called on a miss only, so the key is new and goes to the end of the dict;
\* oldest_keys is keys()[:-max_cache_size//2], and -max_cache_size//2 is
\* (-max_cache_size)//2
_cache_result(cache, cache_key, result) ==
    LET stored == Append(cache, [key |-> cache_key, result |-> Without(result, "from_cache")])
        oldest == Len(stored) + ((-max_cache_size) \div 2)
    IN IF Len(stored) > max_cache_size
       THEN SubSeq(stored, oldest + 1, Len(stored))
       ELSE stored

\* what the entity / context pipeline makes of a text
merged_result(text) ==
    [operation |-> "buffer", confidence |-> 90, original_text |-> text,
     processing_method |-> "merged"]

error_fallback(text) ==
    [operation |-> "unknown", confidence |-> 0, original_text |-> text,
     processing_method |-> "error_fallback"]

EngineRet(op, key, result) == [op |-> op, key |-> key, result |-> result]

InitCache ==
    /\ query_cache = <<>>
    /\ texts_seen = 0
    /\ engine_ret = EngineRet("none", <<>>, <<>>)
    /\ IdleTx /\ IdleErr /\ IdleIss /\ IdlePlug /\ IdleEng /\ IdleThr /\ IdleLog /\ IdleRule /\ IdleVal /\ IdleRes /\ IdleSeq /\ IdleFrm

\* the texts a call may carry: a wording not interpreted before, typed in
\* lower case, or the first or the latest interpreted wording again in either
\* casing; texts_seen counts the wordings interpreted so far
Wordings ==
    (IF texts_seen < MaxTexts THEN {Text(texts_seen + 1, "lower")} ELSE {})
    \cup {Text(id, casing) : id \in {1, texts_seen} \cap 1..texts_seen,
                             casing \in {"lower", "Upper"}}

LayerLists == {<<"roads", "parcels">>, <<"parcels", "roads">>}

\* process_command on a hit: a copy of the cached result, marked from_cache
CacheHit ==
    \E text \in Wordings, active_layers \in LayerLists :
        LET cache_key == _generate_cache_key(text, active_layers, "EPSG:4326")
        IN /\ InCache(query_cache, cache_key)
           /\ engine_ret' = EngineRet("process_command", cache_key,
                                      With(Lookup(query_cache, cache_key), "from_cache", TRUE))
           /\ UNCHANGED <<query_cache, texts_seen>>
           /\ UNCHANGED otherThanCache

\* process_command on a miss: the merged result is cached and returned
CacheMiss ==
    \E text \in Wordings, active_layers \in LayerLists :
        LET cache_key == _generate_cache_key(text, active_layers, "EPSG:4326")
        IN /\ ~InCache(query_cache, cache_key)
           /\ query_cache' = _cache_result(query_cache, cache_key, merged_result(text))
           /\ engine_ret' = EngineRet("process_command", cache_key, merged_result(text))
           /\ texts_seen' = IF text.id > texts_seen THEN text.id ELSE texts_seen
           /\ UNCHANGED otherThanCache

\* process_command on a miss when the pipeline raises: nothing is cached
CacheMissRaised ==
    \E text \in Wordings, active_layers \in LayerLists :
        LET cache_key == _generate_cache_key(text, active_layers, "EPSG:4326")
        IN /\ ~InCache(query_cache, cache_key)
           /\ engine_ret' = EngineRet("process_command", cache_key, error_fallback(text))
           /\ UNCHANGED <<query_cache, texts_seen>>
           /\ UNCHANGED otherThanCache

NextCache ==
    \/ CacheHit
    \/ CacheMiss
    \/ CacheMissRaised

SpecCache == InitCache /\ [][NextCache]_vars

(***************************************************************************)
(* Command texts.  A string is the tuple of its characters, so that        *)
(* str.lower(), the `in` test on strings, str.split() and the regular      *)
(* expressions of the engine are computed on it.  The words of the         *)
(* vocabulary, layer names and units are named by TLA+ strings and spelled *)
(* by Chars.  Numbers in the modelled texts are whole.                     *)
(***************************************************************************)
DigitChars == <<"0", "1", "2", "3", "4", "5", "6", "7", "8", "9">>
UpperChars == <<"A", "B", "C", "D", "E", "F", "G", "H", "I", "J", "K", "L", "M",
                "N", "O", "P", "Q", "R", "S", "T", "U", "V", "W", "X", "Y", "Z">>
LowerChars == <<"a", "b", "c", "d", "e", "f", "g", "h", "i", "j", "k", "l", "m",
                "n", "o", "p", "q", "r", "s", "t", "u", "v", "w", "x", "y", "z">>

IsDigit(c) == \E d \in 1..Len(DigitChars) : DigitChars[d] = c
DigitValue(c) == (CHOOSE d \in 1..Len(DigitChars) : DigitChars[d] = c) - 1

lower_char(c) ==
    IF \E i \in 1..Len(UpperChars) : UpperChars[i] = c
    THEN LowerChars[CHOOSE i \in 1..Len(UpperChars) : UpperChars[i] = c]
    ELSE c

\* str.lower()
str_lower(s) == [i \in 1..Len(s) |-> lower_char(s[i])]

\* s[i:].startswith(p), 1-based
MatchAt(s, i, p) == i + Len(p) - 1 <= Len(s) /\ SubSeq(s, i, i + Len(p) - 1) = p

\* p in s
Contains(s, p) == \E i \in 1..Len(s) + 1 : MatchAt(s, i, p)

\* float() of a run of digits
RECURSIVE NumberValue(_)
NumberValue(digits) ==
    IF digits = <<>> THEN 0
    ELSE 10 * NumberValue(SubSeq(digits, 1, Len(digits) - 1)) + DigitValue(digits[Len(digits)])

\* str.split(): the maximal runs of characters outside separators
RECURSIVE SplitOn(_, _)
SplitOn(s, separators) ==
    IF s = <<>> THEN <<>>
    ELSE IF s[1] \in separators THEN SplitOn(Tail(s), separators)
    ELSE LET stop == IF \E i \in 1..Len(s) : s[i] \in separators
                     THEN (CHOOSE i \in 1..Len(s) :
                              /\ s[i] \in separators
                              /\ \A k \in 1..i - 1 : s[k] \notin separators) - 1
                     ELSE Len(s)
         IN <<SubSeq(s, 1, stop)>> \o SplitOn(SubSeq(s, stop + 1, Len(s)), separators)

split(s) == SplitOn(s, {" "})

\* s.replace(a, b) for single characters
replace_char(s, a, b) == [i \in 1..Len(s) |-> IF s[i] = a THEN b ELSE s[i]]

\* words joined by single blanks
RECURSIVE Sentence(_)
Sentence(words) ==
    IF words = <<>> THEN <<>>
    ELSE IF Len(words) = 1 THEN words[1]
    ELSE words[1] \o <<" ">> \o Sentence(Tail(words))

\* the spelling of the words of the vocabulary and of the modelled commands
Words ==
    {"buffer", "clip", "intersect", "intersection", "union", "merge", "join", "select",
     "filter", "query", "find", "search", "extract", "dissolve", "split", "overlay",
     "spatial join", "near", "within", "contains", "roads", "rivers", "buildings",
     "parcels", "boundaries", "points", "lines", "polygons", "raster", "vector",
     "shapefile", "layer", "features", "geometries", "areas", "zones", "regions", "meter",
     "metre", "m", "kilometer", "kilometre", "km", "feet", "foot", "ft", "mile", "mi",
     "meters", "kilometers", "miles", "close to", "far from", "adjacent to", "inside",
     "outside", "intersects", "overlaps", "crosses", "touches", "create", "make", "get",
     "show", "calculate", "compute", "around", "cut", "where", "overlap", "with", "and",
     "using", "by", "over", "against", "that", "which", ">", "<", "=", "is", "equals",
     "in", "the", "a", "Buffer", "2", "100", "1250", "50", "population", "1000",
     "land_use", "population > 1000", "boundaries layer", "unknown", "proximity",
     "density", "statistics", "road_network", "Clip", "BUFFER", "ROADS", "20000",
     "20000 meters", "create buffer", "make buffer", "buffering", "overlapping",
     "overlaps with", "trim", "combine", "unite", "divide", "separate", "choose", "pick",
     "distance", "concentration", "hotspot", "cluster", "stats", "mean", "average", "sum"}

Chars(word) ==
    CASE word = "buffer"         -> <<"b", "u", "f", "f", "e", "r">>
      [] word = "clip"           -> <<"c", "l", "i", "p">>
      [] word = "intersect"      -> <<"i", "n", "t", "e", "r", "s", "e", "c", "t">>
      [] word = "intersection"   -> <<"i", "n", "t", "e", "r", "s", "e", "c", "t", "i", "o", "n">>
      [] word = "union"          -> <<"u", "n", "i", "o", "n">>
      [] word = "merge"          -> <<"m", "e", "r", "g", "e">>
      [] word = "join"           -> <<"j", "o", "i", "n">>
      [] word = "select"         -> <<"s", "e", "l", "e", "c", "t">>
      [] word = "filter"         -> <<"f", "i", "l", "t", "e", "r">>
      [] word = "query"          -> <<"q", "u", "e", "r", "y">>
      [] word = "find"           -> <<"f", "i", "n", "d">>
      [] word = "search"         -> <<"s", "e", "a", "r", "c", "h">>
      [] word = "extract"        -> <<"e", "x", "t", "r", "a", "c", "t">>
      [] word = "dissolve"       -> <<"d", "i", "s", "s", "o", "l", "v", "e">>
      [] word = "split"          -> <<"s", "p", "l", "i", "t">>
      [] word = "overlay"        -> <<"o", "v", "e", "r", "l", "a", "y">>
      [] word = "spatial join"   -> <<"s", "p", "a", "t", "i", "a", "l", " ", "j", "o", "i", "n">>
      [] word = "near"           -> <<"n", "e", "a", "r">>
      [] word = "within"         -> <<"w", "i", "t", "h", "i", "n">>
      [] word = "contains"       -> <<"c", "o", "n", "t", "a", "i", "n", "s">>
      [] word = "roads"          -> <<"r", "o", "a", "d", "s">>
      [] word = "rivers"         -> <<"r", "i", "v", "e", "r", "s">>
      [] word = "buildings"      -> <<"b", "u", "i", "l", "d", "i", "n", "g", "s">>
      [] word = "parcels"        -> <<"p", "a", "r", "c", "e", "l", "s">>
      [] word = "boundaries"     -> <<"b", "o", "u", "n", "d", "a", "r", "i", "e", "s">>
      [] word = "points"         -> <<"p", "o", "i", "n", "t", "s">>
      [] word = "lines"          -> <<"l", "i", "n", "e", "s">>
      [] word = "polygons"       -> <<"p", "o", "l", "y", "g", "o", "n", "s">>
      [] word = "raster"         -> <<"r", "a", "s", "t", "e", "r">>
      [] word = "vector"         -> <<"v", "e", "c", "t", "o", "r">>
      [] word = "shapefile"      -> <<"s", "h", "a", "p", "e", "f", "i", "l", "e">>
      [] word = "layer"          -> <<"l", "a", "y", "e", "r">>
      [] word = "features"       -> <<"f", "e", "a", "t", "u", "r", "e", "s">>
      [] word = "geometries"     -> <<"g", "e", "o", "m", "e", "t", "r", "i", "e", "s">>
      [] word = "areas"          -> <<"a", "r", "e", "a", "s">>
      [] word = "zones"          -> <<"z", "o", "n", "e", "s">>
      [] word = "regions"        -> <<"r", "e", "g", "i", "o", "n", "s">>
      [] word = "meter"          -> <<"m", "e", "t", "e", "r">>
      [] word = "metre"          -> <<"m", "e", "t", "r", "e">>
      [] word = "m"              -> <<"m">>
      [] word = "kilometer"      -> <<"k", "i", "l", "o", "m", "e", "t", "e", "r">>
      [] word = "kilometre"      -> <<"k", "i", "l", "o", "m", "e", "t", "r", "e">>
      [] word = "km"             -> <<"k", "m">>
      [] word = "feet"           -> <<"f", "e", "e", "t">>
      [] word = "foot"           -> <<"f", "o", "o", "t">>
      [] word = "ft"             -> <<"f", "t">>
      [] word = "mile"           -> <<"m", "i", "l", "e">>
      [] word = "mi"             -> <<"m", "i">>
      [] word = "meters"         -> <<"m", "e", "t", "e", "r", "s">>
      [] word = "kilometers"     -> <<"k", "i", "l", "o", "m", "e", "t", "e", "r", "s">>
      [] word = "miles"          -> <<"m", "i", "l", "e", "s">>
      [] word = "close to"       -> <<"c", "l", "o", "s", "e", " ", "t", "o">>
      [] word = "far from"       -> <<"f", "a", "r", " ", "f", "r", "o", "m">>
      [] word = "adjacent to"    -> <<"a", "d", "j", "a", "c", "e", "n", "t", " ", "t", "o">>
      [] word = "inside"         -> <<"i", "n", "s", "i", "d", "e">>
      [] word = "outside"        -> <<"o", "u", "t", "s", "i", "d", "e">>
      [] word = "intersects"     -> <<"i", "n", "t", "e", "r", "s", "e", "c", "t", "s">>
      [] word = "overlaps"       -> <<"o", "v", "e", "r", "l", "a", "p", "s">>
      [] word = "crosses"        -> <<"c", "r", "o", "s", "s", "e", "s">>
      [] word = "touches"        -> <<"t", "o", "u", "c", "h", "e", "s">>
      [] word = "create"         -> <<"c", "r", "e", "a", "t", "e">>
      [] word = "make"           -> <<"m", "a", "k", "e">>
      [] word = "get"            -> <<"g", "e", "t">>
      [] word = "show"           -> <<"s", "h", "o", "w">>
      [] word = "calculate"      -> <<"c", "a", "l", "c", "u", "l", "a", "t", "e">>
      [] word = "compute"        -> <<"c", "o", "m", "p", "u", "t", "e">>
      [] word = "around"         -> <<"a", "r", "o", "u", "n", "d">>
      [] word = "cut"            -> <<"c", "u", "t">>
      [] word = "where"          -> <<"w", "h", "e", "r", "e">>
      [] word = "overlap"        -> <<"o", "v", "e", "r", "l", "a", "p">>
      [] word = "with"           -> <<"w", "i", "t", "h">>
      [] word = "and"            -> <<"a", "n", "d">>
      [] word = "using"          -> <<"u", "s", "i", "n", "g">>
      [] word = "by"             -> <<"b", "y">>
      [] word = "over"           -> <<"o", "v", "e", "r">>
      [] word = "against"        -> <<"a", "g", "a", "i", "n", "s", "t">>
      [] word = "that"           -> <<"t", "h", "a", "t">>
      [] word = "which"          -> <<"w", "h", "i", "c", "h">>
      [] word = ">"              -> <<">">>
      [] word = "<"              -> <<"<">>
      [] word = "="              -> <<"=">>
      [] word = "is"             -> <<"i", "s">>
      [] word = "equals"         -> <<"e", "q", "u", "a", "l", "s">>
      [] word = "in"             -> <<"i", "n">>
      [] word = "the"            -> <<"t", "h", "e">>
      [] word = "a"              -> <<"a">>
      [] word = "Buffer"         -> <<"B", "u", "f", "f", "e", "r">>
      [] word = "2"              -> <<"2">>
      [] word = "100"            -> <<"1", "0", "0">>
      [] word = "1250"           -> <<"1", "2", "5", "0">>
      [] word = "50"             -> <<"5", "0">>
      [] word = "population"     -> <<"p", "o", "p", "u", "l", "a", "t", "i", "o", "n">>
      [] word = "1000"           -> <<"1", "0", "0", "0">>
      [] word = "land_use"       -> <<"l", "a", "n", "d", "_", "u", "s", "e">>
      [] word = "population > 1000" -> <<"p", "o", "p", "u", "l", "a", "t", "i", "o", "n", " ", ">", " ", "1", "0", "0", "0">>
      [] word = "boundaries layer" -> <<"b", "o", "u", "n", "d", "a", "r", "i", "e", "s", " ", "l", "a", "y", "e", "r">>
      [] word = "unknown"        -> <<"u", "n", "k", "n", "o", "w", "n">>
      [] word = "proximity"      -> <<"p", "r", "o", "x", "i", "m", "i", "t", "y">>
      [] word = "density"        -> <<"d", "e", "n", "s", "i", "t", "y">>
      [] word = "statistics"     -> <<"s", "t", "a", "t", "i", "s", "t", "i", "c", "s">>
      [] word = "road_network"   -> <<"r", "o", "a", "d", "_", "n", "e", "t", "w", "o", "r", "k">>
      [] word = "Clip"           -> <<"C", "l", "i", "p">>
      [] word = "BUFFER"         -> <<"B", "U", "F", "F", "E", "R">>
      [] word = "ROADS"          -> <<"R", "O", "A", "D", "S">>
      [] word = "20000"          -> <<"2", "0", "0", "0", "0">>
      [] word = "20000 meters"   -> <<"2", "0", "0", "0", "0", " ", "m", "e", "t", "e", "r", "s">>
      [] word = "create buffer"  -> <<"c", "r", "e", "a", "t", "e", " ", "b", "u", "f", "f", "e", "r">>
      [] word = "make buffer"    -> <<"m", "a", "k", "e", " ", "b", "u", "f", "f", "e", "r">>
      [] word = "buffering"      -> <<"b", "u", "f", "f", "e", "r", "i", "n", "g">>
      [] word = "overlapping"    -> <<"o", "v", "e", "r", "l", "a", "p", "p", "i", "n", "g">>
      [] word = "overlaps with"  -> <<"o", "v", "e", "r", "l", "a", "p", "s", " ", "w", "i", "t", "h">>
      [] word = "trim"           -> <<"t", "r", "i", "m">>
      [] word = "combine"        -> <<"c", "o", "m", "b", "i", "n", "e">>
      [] word = "unite"          -> <<"u", "n", "i", "t", "e">>
      [] word = "divide"         -> <<"d", "i", "v", "i", "d", "e">>
      [] word = "separate"       -> <<"s", "e", "p", "a", "r", "a", "t", "e">>
      [] word = "choose"         -> <<"c", "h", "o", "o", "s", "e">>
      [] word = "pick"           -> <<"p", "i", "c", "k">>
      [] word = "distance"       -> <<"d", "i", "s", "t", "a", "n", "c", "e">>
      [] word = "concentration"  -> <<"c", "o", "n", "c", "e", "n", "t", "r", "a", "t", "i", "o", "n">>
      [] word = "hotspot"        -> <<"h", "o", "t", "s", "p", "o", "t">>
      [] word = "cluster"        -> <<"c", "l", "u", "s", "t", "e", "r">>
      [] word = "stats"          -> <<"s", "t", "a", "t", "s">>
      [] word = "mean"           -> <<"m", "e", "a", "n">>
      [] word = "average"        -> <<"a", "v", "e", "r", "a", "g", "e">>
      [] word = "sum"            -> <<"s", "u", "m">>

\* the word a text spells
Str(chars) == CHOOSE word \in Words : Chars(word) = chars

(***************************************************************************)
(* nlp_engine/__init__.py: the vocabulary and FallbackNER, the recognizer   *)
(* the engine runs with when the spaCy model is not loaded.                *)
(***************************************************************************)
vocabulary_operations ==
    <<"buffer", "clip", "intersect", "intersection", "union", "merge", "join", "select",
      "filter", "query", "find", "search", "extract", "dissolve", "split", "overlay",
      "spatial join", "near", "within", "contains">>

vocabulary_layer_types ==
    <<"roads", "rivers", "buildings", "parcels", "boundaries", "points", "lines",
      "polygons", "raster", "vector", "shapefile", "layer", "features", "geometries",
      "areas", "zones", "regions">>

\* the unit alternatives of FallbackNER's distance pattern, in pattern order
ner_distance_units ==
    <<"meter", "metre", "m", "kilometer", "kilometre", "km", "feet", "foot", "ft", "mile",
      "mi">>

\* re.search of (\d+\.?\d*)\s*(u1|u2|...) in s: the leftmost run of digits that
\* blanks and then one of the units follow; the unit is the first alternative
\* that matches there, whatever follows it
RunEnd(s, i) ==
    CHOOSE j \in i..Len(s) :
        /\ \A k \in i..j : IsDigit(s[k])
        /\ j = Len(s) \/ ~IsDigit(s[j + 1])

SkipBlanks(s, k) ==
    CHOOSE m \in k..Len(s) + 1 :
        /\ \A x \in k..m - 1 : s[x] = " "
        /\ m = Len(s) + 1 \/ s[m] # " "

UnitStart(s, i) == SkipBlanks(s, RunEnd(s, i) + 1)

DistanceStarts(s, units) ==
    {i \in 1..Len(s) : IsDigit(s[i])
                       /\ \E u \in 1..Len(units) : MatchAt(s, UnitStart(s, i), Chars(units[u]))}

search_distance(s, units) ==
    IF DistanceStarts(s, units) = {}
    THEN [found |-> FALSE, value |-> 0, unit |-> ""]
    ELSE LET i == CHOOSE x \in DistanceStarts(s, units) :
                      \A y \in DistanceStarts(s, units) : x <= y
             u == CHOOSE x \in 1..Len(units) :
                      /\ MatchAt(s, UnitStart(s, i), Chars(units[x]))
                      /\ \A y \in 1..x - 1 : ~MatchAt(s, UnitStart(s, i), Chars(units[y]))
         IN [found |-> TRUE,
             value |-> NumberValue(SubSeq(s, i, RunEnd(s, i))),
             unit |-> units[u]]

\* the entries of an ordered list of words that occur in s, in list order
Occurring(list, s) ==
    LET occurs(word) == Contains(s, Chars(word))
    IN SelectSeq(list, occurs)

\* Python truth of a string or None, and `x or y`
IsSet(x) == x # None /\ x # ""
Or(x, y) == IF IsSet(x) THEN x ELSE y

\* confidences are held in hundredths
FallbackNER_extract_gis_commands(text) ==
    LET text_lower == str_lower(text)
        entities(operations, layer_types, match) ==
            [action |-> IF operations = <<>> THEN None ELSE operations[1],
             primary_target |-> IF Len(layer_types) >= 1 THEN layer_types[1] ELSE None,
             secondary_target |-> IF Len(layer_types) >= 2 THEN layer_types[2] ELSE None,
             parameters |-> IF match.found
                            THEN [distance |-> match.value, unit |-> match.unit]
                            ELSE EmptyDict,
             confidence |-> 40 + (IF operations = <<>> THEN 0 ELSE 20)
                               + 10 * Len(layer_types)
                               + (IF match.found THEN 20 ELSE 0),
             processing_method |-> "fallback_ner"]
    IN entities(Occurring(vocabulary_operations, text_lower),
                Occurring(vocabulary_layer_types, text_lower),
                search_distance(text_lower, ner_distance_units))

(***************************************************************************)
(* nlp_engine/context_parser.py                                            *)
(***************************************************************************)
operation_mappings ==
    <<[operation |-> "buffer",
       phrases |-> <<"buffer", "create buffer", "make buffer", "buffering">>],
      [operation |-> "intersect",
       phrases |-> <<"intersect", "intersection", "overlapping", "overlap", "overlaps with">>],
      [operation |-> "clip",
       phrases |-> <<"clip", "cut", "extract", "trim">>],
      [operation |-> "merge",
       phrases |-> <<"merge", "combine", "join", "dissolve">>],
      [operation |-> "union",
       phrases |-> <<"union", "unite", "combine">>],
      [operation |-> "split",
       phrases |-> <<"split", "divide", "separate">>],
      [operation |-> "select",
       phrases |-> <<"select", "choose", "pick", "filter", "find", "get">>],
      [operation |-> "query",
       phrases |-> <<"query", "search", "find", "where">>],
      [operation |-> "proximity",
       phrases |-> <<"near", "close to", "within", "distance", "proximity">>],
      [operation |-> "density",
       phrases |-> <<"density", "concentration", "hotspot", "cluster">>],
      [operation |-> "statistics",
       phrases |-> <<"statistics", "calculate", "compute", "stats", "mean", "average", "sum">>]>>

spatial_relationships ==
    <<"near", "close to", "far from", "adjacent to", "within", "contains", "inside",
      "outside", "intersects", "overlaps", "crosses", "touches">>

\* the unit alternatives of the distance pattern of extract_numeric_parameters
\* and of _enhance_with_pattern_matching, in pattern order
context_distance_units ==
    <<"meter", "meters", "m", "kilometer", "kilometers", "km", "feet", "foot", "ft",
      "mile", "miles", "mi">>

identify_operation(text) ==
    LET mentioned(mapping) ==
            \E p \in 1..Len(mapping.phrases) :
                Contains(str_lower(text), Chars(mapping.phrases[p]))
        identified == SelectSeq(operation_mappings, mentioned)
    IN IF identified = <<>> THEN "unknown" ELSE identified[1].operation

\* re.split(r'[_\s-]', layer.lower()), the empty pieces left out
layer_tokens(layer) == SplitOn(str_lower(Chars(layer)), {"_", " ", "-"})

\* active_layers is the list the parser last got from update_context
identify_layers(text, active_layers) ==
    LET exact(layer) == Contains(str_lower(text), str_lower(Chars(layer)))
        partial(layer) ==
            \E t \in 1..Len(layer_tokens(layer)) :
                /\ Len(layer_tokens(layer)[t]) > 3
                /\ Contains(str_lower(text), layer_tokens(layer)[t])
        identified(exact_matches) ==
            IF exact_matches # <<>> THEN exact_matches
            ELSE SelectSeq(active_layers, partial)
    IN identified(SelectSeq(active_layers, exact))

\* the conversion to metres; the modelled distances convert to whole metres
to_meters(value, unit) ==
    IF unit \in {"kilometer", "kilometers", "km"} THEN value * 1000
    ELSE IF unit \in {"feet", "foot", "ft"} THEN (value * 3048) \div 10000
    ELSE IF unit \in {"mile", "miles", "mi"} THEN (value * 160934) \div 100
    ELSE value

\* the pattern is matched without regard to case
extract_numeric_parameters(text) ==
    LET parameters(match) ==
            IF match.found
            THEN [distance |-> to_meters(match.value, match.unit)]
            ELSE EmptyDict
    IN parameters(search_distance(str_lower(text), context_distance_units))

identify_spatial_relationship(text) ==
    LET relations == Occurring(spatial_relationships, str_lower(text))
    IN IF relations = <<>> THEN None ELSE relations[1]

\* input_layer and secondary_layer are absent from the dict when no layer or
\* one layer is identified; the engine reads them with get(), so None here
GISContextParser_parse_command(text, active_layers) ==
    LET parsed(layers) ==
            [operation |-> identify_operation(text),
             layers |-> layers,
             parameters |-> extract_numeric_parameters(text),
             spatial_relationship |-> identify_spatial_relationship(text),
             original_text |-> text,
             input_layer |-> IF Len(layers) >= 1 THEN layers[1] ELSE None,
             secondary_layer |-> IF Len(layers) > 1 THEN layers[2] ELSE None]
    IN parsed(identify_layers(text, active_layers))

(***************************************************************************)
(* nlp_engine/__init__.py: the interpretation of one command               *)
(***************************************************************************)
confidence_threshold == 60

Max(a, b) == IF a > b THEN a ELSE b

_match_layer_name(mentioned_name, active_layers) ==
    LET mentioned_lower == str_lower(Chars(mentioned_name))
        layer_lower(layer) == str_lower(Chars(layer))
        exact(layer) == layer_lower(layer) = mentioned_lower
        partial(layer) == \/ Contains(layer_lower(layer), mentioned_lower)
                          \/ Contains(mentioned_lower, layer_lower(layer))
        mentioned_tokens == split(mentioned_lower)
        tokens(layer) == split(replace_char(layer_lower(layer), "_", " "))
        token_match(layer) ==
            \E t \in 1..Len(mentioned_tokens) : \E l \in 1..Len(tokens(layer)) :
                mentioned_tokens[t] = tokens(layer)[l]
        first_of(matches, otherwise) == IF matches # <<>> THEN matches[1] ELSE otherwise
    IN first_of(SelectSeq(active_layers, exact),
                first_of(SelectSeq(active_layers, partial),
                         first_of(SelectSeq(active_layers, token_match), None)))

\* the context result carries no confidence, so its share of the maximum is 0;
\* active_layers None and [] are both the empty list
_merge_and_enhance_results(entity_result, context_result, text, active_layers) ==
    LET operation == IF context_result.operation = "unknown" /\ IsSet(entity_result.action)
                     THEN entity_result.action
                     ELSE context_result.operation
        matched(layer) == IF active_layers # <<>> /\ IsSet(layer)
                          THEN _match_layer_name(layer, active_layers)
                          ELSE None
        merged(input_layer, secondary_layer, matched_input, matched_secondary) ==
            [operation |-> operation,
             input_layer |-> IF IsSet(matched_input) THEN matched_input ELSE input_layer,
             secondary_layer |-> IF IsSet(matched_secondary) THEN matched_secondary
                                 ELSE secondary_layer,
             parameters |-> Update(context_result.parameters, entity_result.parameters),
             spatial_relationship |-> context_result.spatial_relationship,
             confidence |-> Min(Max(entity_result.confidence, 0)
                                + (IF IsSet(matched_input) THEN 10 ELSE 0)
                                + (IF IsSet(matched_secondary) THEN 5 ELSE 0), 100),
             original_text |-> text,
             processing_method |-> "merged"]
        matching(input_layer, secondary_layer) ==
            merged(input_layer, secondary_layer,
                   matched(input_layer), matched(secondary_layer))
    IN matching(Or(entity_result.primary_target, context_result.input_layer),
                Or(entity_result.secondary_target, context_result.secondary_layer))

action_words == <<"create", "make", "find", "get", "show", "calculate", "compute">>

\* the operation the action-word branch infers, None when it infers nothing
inferred_operation(text) ==
    LET text_lower == str_lower(text)
        any(words) == \E w \in words : Contains(text_lower, Chars(w))
    IN IF Occurring(action_words, text_lower) = <<>> THEN None
       ELSE IF any({"buffer", "around"}) THEN "buffer"
       ELSE IF any({"clip", "cut", "extract"}) THEN "clip"
       ELSE IF any({"select", "filter", "where"}) THEN "select"
       ELSE IF any({"intersect", "intersection", "overlap"}) THEN "intersection"
       ELSE None

_apply_disambiguation(result, text, active_layers) ==
    LET infer == result.operation = "unknown" /\ inferred_operation(text) # None
        guess == ~IsSet(result.input_layer) /\ active_layers # <<>>
        disambiguated ==
            [result EXCEPT
                !.operation = IF infer THEN inferred_operation(text) ELSE @,
                !.input_layer = IF guess THEN active_layers[1] ELSE @,
                !.parameters = IF guess THEN With(@, "auto_inferred_layer", TRUE) ELSE @,
                !.confidence = IF guess THEN @ + 10 ELSE @]
    IN With(With(disambiguated, "disambiguation_applied", TRUE),
            "original_confidence", result.confidence)

\* the body of process_command's try block up to the caching, with the
\* entity result and the merged result it passes through: parser_layers is
\* the list the context parser holds when the command is parsed
interpret(text, active_layers, parser_layers) ==
    LET interpreted(entity_result, merged) ==
            [entity_result |-> entity_result,
             merged |-> merged,
             nlp_result |-> IF merged.confidence < confidence_threshold
                            THEN _apply_disambiguation(merged, text, active_layers)
                            ELSE merged]
        merging(entity_result) ==
            interpreted(entity_result,
                        _merge_and_enhance_results(
                            entity_result,
                            GISContextParser_parse_command(text, parser_layers),
                            text, active_layers))
    IN merging(FallbackNER_extract_gis_commands(text))

(***************************************************************************)
(* query_engine/query_parser.py: the patterns of                           *)
(* _enhance_with_pattern_matching, matched without regard to case          *)
(***************************************************************************)
IsLetter(c) == \E i \in 1..Len(LowerChars) : LowerChars[i] = c \/ UpperChars[i] = c

\* the classes [\w\s] and [\w\s\.]
WordOrBlank(c) == IsLetter(c) \/ IsDigit(c) \/ c = "_" \/ c = " "
WordBlankOrDot(c) == WordOrBlank(c) \/ c = "."

\* the end of the longest run of one class that starts at k; k - 1 when
\* the character at k is outside the class
ClassRunEnd(s, k, InClass(_)) ==
    CHOOSE j \in k - 1..Len(s) :
        /\ \A x \in k..j : InClass(s[x])
        /\ j = Len(s) \/ ~InClass(s[j + 1])

\* str.strip()
RECURSIVE strip(_)
strip(s) ==
    IF s = <<>> THEN s
    ELSE IF s[1] = " " THEN strip(Tail(s))
    ELSE IF s[Len(s)] = " " THEN strip(SubSeq(s, 1, Len(s) - 1))
    ELSE s

\* the keywords of a list that stand at i with a blank after them
KeywordsAt(s, i, keywords) ==
    LET spelt(w) == /\ MatchAt(str_lower(s), i, w)
                    /\ i + Len(w) <= Len(s)
                    /\ s[i + Len(w)] = " "
        stands(word) == spelt(Chars(word))
    IN SelectSeq(keywords, stands)

\* (?:with|and|using|by|over|against)\s+(?:the|a)?\s*([\w\s]+): where the
\* group and the blanks before it begin for a keyword at i, the longer
\* article first; 0 when nothing of [\w\s] is left to match there
secondary_keywords == <<"with", "and", "using", "by", "over", "against">>

SecondaryGroupStart(s, i) ==
    LET left(p) == ClassRunEnd(s, p, WordOrBlank) >= p
        article(after, w) == MatchAt(str_lower(s), after, w) /\ left(after + Len(w))
        start(after) ==
            IF article(after, Chars("the")) THEN after + 3
            ELSE IF article(after, Chars("a")) THEN after + 1
            ELSE IF left(after) THEN after
            ELSE 0
    IN start(SkipBlanks(s, i + Len(Chars(KeywordsAt(s, i, secondary_keywords)[1]))))

search_secondary(s) ==
    LET starts == {i \in 1..Len(s) : /\ KeywordsAt(s, i, secondary_keywords) # <<>>
                                     /\ SecondaryGroupStart(s, i) # 0}
        group_from(p) == SubSeq(s, p, ClassRunEnd(s, p, WordOrBlank))
        searched(found) ==
            IF found = {} THEN [found |-> FALSE, group |-> <<>>]
            ELSE [found |-> TRUE,
                  group |-> group_from(SecondaryGroupStart(
                                s, CHOOSE i \in found : \A j \in found : i <= j))]
    IN searched(starts)

\* (?:where|that|which|with)\s+([\w\s]+\s*(?:>|<|=|is|equals|contains|in)\s*[\w\s\.]+)
\* for a keyword at i: the group begins at the first character after the
\* blanks; [\w\s]+ takes the longest run such that an operator and at least
\* one character of [\w\s\.] follow.  The end of the group, 0 without a match.
where_keywords == <<"where", "that", "which", "with">>
word_operators == <<"is", "equals", "contains", "in">>

WhereGroupStart(s, i) ==
    SkipBlanks(s, i + Len(Chars(KeywordsAt(s, i, where_keywords)[1])))

WhereGroupEnd(s, i) ==
    LET rest(p) == ClassRunEnd(s, p, WordBlankOrDot)
        operator_at(q, w) == /\ MatchAt(str_lower(s), q, w)
                             /\ rest(q + Len(w)) >= q + Len(w)
        splits(g, run) == {q \in g + 1..run :
                             \E o \in 1..Len(word_operators) :
                                 operator_at(q, Chars(word_operators[o]))}
        ending(g, run) ==
            IF run < g THEN 0
            ELSE IF run < Len(s) /\ s[run + 1] \in {">", "<", "="} /\ rest(run + 2) >= run + 2
            THEN rest(run + 2)
            ELSE IF splits(g, run) # {} THEN rest(run + 1)
            ELSE 0
        from(g) == ending(g, ClassRunEnd(s, g, WordOrBlank))
    IN from(WhereGroupStart(s, i))

search_where(s) ==
    LET starts == {i \in 1..Len(s) : /\ KeywordsAt(s, i, where_keywords) # <<>>
                                     /\ WhereGroupEnd(s, i) # 0}
        group_at(i0) == SubSeq(s, WhereGroupStart(s, i0), WhereGroupEnd(s, i0))
        searched(found) ==
            IF found = {} THEN [found |-> FALSE, group |-> <<>>]
            ELSE [found |-> TRUE,
                  group |-> group_at(CHOOSE i \in found : \A j \in found : i <= j)]
    IN searched(starts)

(***************************************************************************)
(* One query through the chain: NLPEngine.process_command with its cache,  *)
(* NLPQueryParser's enhancement and auto-fill, QueryEngine.process_query,  *)
(* and the validation ErrorSystem runs on the processed query.             *)
(* A result dict holds its parameters dict by reference: in the cache and  *)
(* in what process_command returns, parameters is an address into heap.    *)
(* The parser is the NLPQueryParser of query_engine/query_parser.py, the   *)
(* class the package imports for QueryEngine.                              *)
(***************************************************************************)
MaxInterpretations == 2     \* commands interpreted (cache misses) per run

otherThanEng == <<txVars, errVars, issVars, plugVars, texts_seen, thrVars, logVars, ruleVars, valVars, resVars, seqVars, frmVars>>

\* text.lower().strip(), str(sorted(active_layers)), current_crs or ""
text_cache_key(text, active_layers, current_crs) ==
    <<strip(str_lower(text)), sorted(active_layers),
      IF current_crs = None THEN "" ELSE current_crs>>

Deref(result, hp) == [result EXCEPT !.parameters = hp[@]]

\* the layer names parse_query takes from the context; None and [] are <<>>
ContextLayerNames(context) ==
    IF DOMAIN context = {} THEN <<>>
    ELSE [i \in 1..Len(context.active_layers) |-> context.active_layers[i].name]

Spell(words) == Sentence([i \in 1..Len(words) |-> Chars(words[i])])

BufferCommand(layer, distance, unit) == Spell(<<"buffer", layer, "by", distance, unit>>)

\* distances that convert to whole metres
StatedDistances ==
    {<<"100", "meters">>, <<"2", "kilometers">>, <<"1250", "feet">>, <<"50", "miles">>}

MapContext(layers) ==
    [active_layers |-> [i \in 1..Len(layers) |-> Layer(layers[i], TRUE)],
     selected_layer |-> None,
     crs |-> "EPSG:4326",
     extent |-> [xmin |-> 0, ymin |-> 0, xmax |-> 1000, ymax |-> 1000],
     scale |-> 5000]

Command(text, context) == [text |-> text, context |-> context]

Commands ==
    {Command(BufferCommand("roads", d[1], d[2]), MapContext(<<"rivers", "roads">>)) :
        d \in StatedDistances}
    \cup
    {Command(Spell(words), MapContext(<<"rivers", "roads">>)) :
        words \in {<<"Buffer", "the", "rivers", "layer", "by", "2", "kilometers">>,
                   <<"buffer", "by", "100", "meters">>,
                   <<"buffer", "roads">>,
                   <<"clip", "the", "roads", "layer">>,
                   <<"clip", "roads", "with", "land_use">>,
                   <<"select", "roads", "where", "population > 1000">>}}
    \cup
    {Command(Spell(words), MapContext(<<"parcels">>)) :
        words \in {<<"buffer", "by", "100", "meters">>,
                   <<"make", "a", "cut">>}}
    \cup
    {Command(Spell(words), MapContext(<<"land_use">>)) :
        words \in {<<"buffer", "by", "100", "meters">>}}
    \cup
    {Command(Spell(words), EmptyDict) :
        words \in {<<"buffer", "roads">>,
                   <<"buffer", "land_use">>,
                   <<"clip", "roads", "rivers", "buildings", "parcels", "with",
                     "boundaries", "layer">>}}

\* what the re.search calls of _enhance_with_pattern_matching find in the text
\* of each command
pattern_searches ==
    [query_text \in {c.text : c \in Commands} |->
        [distance |-> search_distance(str_lower(query_text), context_distance_units),
         secondary |-> search_secondary(query_text),
         expression |-> search_where(query_text)]]

\* the dict handed in is changed in place; this is its value afterwards
_enhance_with_pattern_matching(nlp_result, query_text) ==
    LET raised == [nlp_result EXCEPT !.confidence = Min(@ + 10, 100)]
        with_distance(distance) ==
            IF distance.found /\ ~Has(nlp_result.parameters, "distance")
            THEN [raised EXCEPT
                    !.parameters = With(With(@, "distance",
                                             to_meters(distance.value, distance.unit)),
                                        "unit", "meters")]
            ELSE nlp_result
        with_secondary(secondary) ==
            IF ~IsSet(nlp_result.secondary_layer) /\ secondary.found
            THEN [raised EXCEPT !.secondary_layer = Str(strip(secondary.group))]
            ELSE nlp_result
        with_expression(expression) ==
            IF ~Has(nlp_result.parameters, "expression") /\ expression.found
            THEN [raised EXCEPT
                    !.parameters = With(@, "expression", Str(strip(expression.group)))]
            ELSE nlp_result
        enhanced(operation, found) ==
            IF nlp_result.confidence > 80 THEN nlp_result
            ELSE IF operation = "buffer" THEN with_distance(found.distance)
            ELSE IF operation \in {"clip", "intersection", "union"}
            THEN with_secondary(found.secondary)
            ELSE IF operation = "select" THEN with_expression(found.expression)
            ELSE nlp_result
    IN enhanced(nlp_result.operation, pattern_searches[query_text])

\* the lists the context parser can hold
ParserLayerLists == {<<>>} \cup {ContextLayerNames(c.context) : c \in Commands}

\* what the chain makes of a command the engine has to interpret, for each
\* list the context parser may hold when it does
Interpreted ==
    [c \in Commands, parser_layers \in ParserLayerLists |->
        interpret(c.text, ContextLayerNames(c.context), parser_layers)]

InitIntent ==
    /\ IdleEng
    /\ IdleTx /\ IdleErr /\ IdleIss /\ IdlePlug /\ IdleCache /\ IdleThr /\ IdleLog /\ IdleRule /\ IdleVal /\ IdleRes /\ IdleSeq /\ IdleFrm

\* QueryEngine.process_query(query_text, context) on a cache miss: the engine
\* interprets the text, caches a shallow copy and returns the result; the
\* parser enhances that dict in place and fills a shallow copy of it, so what
\* both steps put into parameters lands in the dict the cache entry holds
ProcessQueryMiss ==
    \E c \in Commands :
        LET active_layers == ContextLayerNames(c.context)
            current_crs == IF DOMAIN c.context = {} THEN None ELSE c.context.crs
            cache_key == text_cache_key(c.text, active_layers, current_crs)
            parser_layers == IF active_layers # <<>> \/ IsSet(current_crs)
                             THEN active_layers
                             ELSE parser_active_layers
            address == Len(heap) + 1
        IN /\ Len(heap) < MaxInterpretations
           /\ ~InCache(query_cache, cache_key)
           /\ \E i \in {Interpreted[c, parser_layers]} :
              \E enhanced_result \in {_enhance_with_pattern_matching(i.nlp_result, c.text)} :
              \E complete_result \in {_fill_missing_parameters(enhanced_result, c.context)} :
              \E processed \in {process_query(complete_result, c.context)} :
                /\ parser_active_layers' = parser_layers
                /\ query_cache' = _cache_result(query_cache, cache_key,
                                                [i.nlp_result EXCEPT !.parameters = address])
                /\ heap' = Append(heap, complete_result.parameters)
                /\ first_returned' = With(first_returned, cache_key, i.nlp_result)
                /\ engine_ret' = EngineRet("miss", cache_key, i.nlp_result)
                /\ stages' = [status |-> "miss",
                              text |-> c.text,
                              context |-> c.context,
                              entity_result |-> i.entity_result,
                              merged |-> i.merged,
                              nlp_result |-> i.nlp_result,
                              enhanced_result |-> enhanced_result,
                              complete_result |-> complete_result,
                              processed_query |-> processed]
           /\ verdict' = NoVerdict
           /\ UNCHANGED otherThanEng

\* the same on a cache hit: the engine returns a shallow copy of the entry
\* with from_cache set, and the parser's steps work on that copy
ProcessQueryHit ==
    \E c \in Commands :
        LET active_layers == ContextLayerNames(c.context)
            current_crs == IF DOMAIN c.context = {} THEN None ELSE c.context.crs
            cache_key == text_cache_key(c.text, active_layers, current_crs)
        IN /\ InCache(query_cache, cache_key)
           /\ \E cached_result \in {With(Lookup(query_cache, cache_key), "from_cache", TRUE)} :
              \E nlp_result \in {Deref(cached_result, heap)} :
              \E enhanced_result \in {_enhance_with_pattern_matching(nlp_result, c.text)} :
              \E complete_result \in {_fill_missing_parameters(enhanced_result, c.context)} :
              \E processed \in {process_query(complete_result, c.context)} :
                /\ heap' = [heap EXCEPT ![cached_result.parameters] =
                                            complete_result.parameters]
                /\ engine_ret' = EngineRet("hit", cache_key, nlp_result)
                /\ stages' = [status |-> "hit",
                              text |-> c.text,
                              context |-> c.context,
                              entity_result |-> <<>>,
                              merged |-> <<>>,
                              nlp_result |-> nlp_result,
                              enhanced_result |-> enhanced_result,
                              complete_result |-> complete_result,
                              processed_query |-> processed]
           /\ verdict' = NoVerdict
           /\ UNCHANGED <<query_cache, parser_active_layers, first_returned>>
           /\ UNCHANGED otherThanEng

\* _on_processing_finished hands the processed query to
\* ErrorSystem.validate_nlp_command and gates the execution on its answer
ValidateProcessedQuery ==
    /\ stages.status \in {"miss", "hit"}
    /\ verdict = NoVerdict
    /\ verdict' = With(ErrorSystem_validate_nlp_command(stages.processed_query),
                       "status", "validated")
    /\ UNCHANGED <<heap, parser_active_layers, first_returned, stages,
                   query_cache, engine_ret>>
    /\ UNCHANGED otherThanEng

NextIntent ==
    \/ ProcessQueryMiss
    \/ ProcessQueryHit
    \/ ValidateProcessedQuery

SpecIntent == InitIntent /\ [][NextIntent]_vars

(***************************************************************************)
(* nlp_engine/__init__.py: process_command called from two                 *)
(* NLPProcessingThreads at once.  plugin_main.process_command starts a new *)
(* thread for every command and does not wait for the one before; the      *)
(* engine takes no lock.  The interpreter switches threads between         *)
(* bytecodes, so every statement that touches query_cache is a step.       *)
(***************************************************************************)
Threads == {"first", "second"}

otherThanThr == <<txVars, errVars, issVars, plugVars, engVars, engine_ret, logVars, ruleVars, valVars, resVars, seqVars, frmVars>>

Caller(at, text, oldest_keys, result) ==
    [pc |-> at, text |-> text, oldest_keys |-> oldest_keys, outcome |-> result]

CallerKey(t) == _generate_cache_key(callers[t].text, <<>>, None)

\* the cache holds the first n texts, as n single calls leave it
FilledCache(n) ==
    [i \in 1..n |-> [key |-> _generate_cache_key(Text(i, "lower"), <<>>, None),
                     result |-> merged_result(Text(i, "lower"))]]

\* the engine has interpreted max_cache_size - 1 or max_cache_size texts
InitThreads ==
    /\ texts_seen \in {max_cache_size - 1, max_cache_size}
    /\ query_cache = FilledCache(texts_seen)
    /\ engine_ret = EngineRet("none", <<>>, <<>>)
    /\ callers = [t \in Threads |-> Caller("idle", Text(0, "lower"), <<>>, "none")]
    /\ IdleTx /\ IdleErr /\ IdleIss /\ IdlePlug /\ IdleEng /\ IdleLog /\ IdleRule /\ IdleVal /\ IdleRes /\ IdleSeq /\ IdleFrm

\* lines 202-203: a thread enters with the oldest cached text or one of two
\* texts not interpreted before, and tests `cache_key in self.query_cache`
EnterProcessCommand(t) ==
    /\ callers[t].pc = "idle"
    /\ \E id \in {1, texts_seen + 1, texts_seen + 2} :
        LET text == Text(id, "lower")
        IN callers' = [callers EXCEPT ![t] =
                          Caller(IF InCache(query_cache, _generate_cache_key(text, <<>>, None))
                                 THEN "hit" ELSE "miss",
                                 text, <<>>, "none")]
    /\ UNCHANGED <<query_cache, texts_seen>>
    /\ UNCHANGED otherThanThr

\* line 205: self.query_cache[cache_key], outside the try block: a KeyError
\* leaves process_command when the entry is gone by now
ReadCachedResult(t) ==
    /\ callers[t].pc = "hit"
    /\ callers' = [callers EXCEPT ![t].pc = "done",
                                  ![t].outcome = IF InCache(query_cache, CallerKey(t))
                                                 THEN "from_cache" ELSE "raised"]
    /\ UNCHANGED <<query_cache, texts_seen>>
    /\ UNCHANGED otherThanThr

\* lines 213-231 are local to the thread; line 269 stores the entry: a key
\* the dict has keeps its place, a new key goes to the end
StoreResult(t) ==
    /\ callers[t].pc = "miss"
    /\ query_cache' =
         IF InCache(query_cache, CallerKey(t))
         THEN query_cache
         ELSE Append(query_cache, [key |-> CallerKey(t),
                                   result |-> merged_result(callers[t].text)])
    /\ callers' = [callers EXCEPT ![t].pc = "stored"]
    /\ UNCHANGED texts_seen
    /\ UNCHANGED otherThanThr

\* line 272: len(self.query_cache) > self.max_cache_size
CheckSize(t) ==
    /\ callers[t].pc = "stored"
    /\ callers' = [callers EXCEPT
                      ![t].pc = IF Len(query_cache) > max_cache_size THEN "over" ELSE "done",
                      ![t].outcome = IF Len(query_cache) > max_cache_size THEN @ ELSE "merged"]
    /\ UNCHANGED <<query_cache, texts_seen>>
    /\ UNCHANGED otherThanThr

\* line 274: oldest_keys = list(self.query_cache.keys())[:-self.max_cache_size//2]
ListOldestKeys(t) ==
    /\ callers[t].pc = "over"
    /\ callers' = [callers EXCEPT
                      ![t].pc = "evicting",
                      ![t].oldest_keys =
                          [i \in 1..Len(query_cache) + ((-max_cache_size) \div 2) |->
                              query_cache[i].key]]
    /\ UNCHANGED <<query_cache, texts_seen>>
    /\ UNCHANGED otherThanThr

\* lines 275-276: del self.query_cache[key] for the next key of the list; a
\* KeyError is caught by process_command's except, which returns the
\* error-fallback result with operation "unknown"
DeleteOldestKey(t) ==
    /\ callers[t].pc = "evicting"
    /\ IF callers[t].oldest_keys = <<>>
       THEN /\ callers' = [callers EXCEPT ![t].pc = "done", ![t].outcome = "merged"]
            /\ UNCHANGED query_cache
       ELSE IF InCache(query_cache, Head(callers[t].oldest_keys))
       THEN /\ query_cache' =
                 LET other(entry) == entry.key # Head(callers[t].oldest_keys)
                 IN SelectSeq(query_cache, other)
            /\ callers' = [callers EXCEPT ![t].oldest_keys = Tail(@)]
       ELSE /\ callers' = [callers EXCEPT ![t].pc = "done",
                                          ![t].outcome = "error_fallback"]
            /\ UNCHANGED query_cache
    /\ UNCHANGED texts_seen
    /\ UNCHANGED otherThanThr

NextThreads ==
    \E t \in Threads :
        \/ EnterProcessCommand(t)
        \/ ReadCachedResult(t)
        \/ StoreResult(t)
        \/ CheckSize(t)
        \/ ListOldestKeys(t)
        \/ DeleteOldestKey(t)

SpecThreads == InitThreads /\ [][NextThreads]_vars

(***************************************************************************)
(* error_system/transaction_log.py and error_logger.py: log_operation,     *)
(* log_error and log_action called from several threads.  Each call        *)
(* appends its record to the list in memory and rewrites the whole file:   *)
(* open(file, 'w') truncates it, json.dump fills the file object's buffer, *)
(* and the buffer reaches the file in one or more writes at the file       *)
(* object's own offset, the last of them when the with block closes the    *)
(* file.  Neither logger takes a lock.  The file is held as JSON tokens.   *)
(***************************************************************************)
MaxAppends == 2             \* records each caller submits

Appenders == {"first", "second"}

otherThanLog == <<txVars, errVars, issVars, plugVars, cacheVars, engVars, thrVars, ruleVars, valVars, resVars, seqVars, frmVars>>

\* a token is a pair: a bracket, a NUL byte, or the n-th record of a caller
OpenBracket == <<"[", 0>>
CloseBracket == <<"]", 0>>
NulByte == <<"NUL", 0>>
IsRecord(token) == token[1] \in Appenders

\* json.dump of a list of records
Serialize(records) == <<OpenBracket>> \o records \o <<CloseBracket>>

\* a write of data at an offset of a file opened without O_APPEND; a gap
\* between the end of the file and the offset reads as NUL bytes
WriteAt(file, offset, data) ==
    [i \in 1..Max(Len(file), offset + Len(data)) |->
        IF i > offset /\ i <= offset + Len(data) THEN data[i - offset]
        ELSE IF i <= Len(file) THEN file[i]
        ELSE NulByte]

Appender(at, submitted, buffer, offset) ==
    [pc |-> at, submitted |-> submitted, buffer |-> buffer, offset |-> offset]

\* a logger constructed on a directory without a log: no records, nothing on disk
InitLog ==
    /\ log_records = <<>>
    /\ log_file = <<>>
    /\ appenders = [t \in Appenders |-> Appender("idle", 0, <<>>, 0)]
    /\ IdleTx /\ IdleErr /\ IdleIss /\ IdlePlug /\ IdleCache /\ IdleEng /\ IdleThr /\ IdleRule /\ IdleVal /\ IdleRes /\ IdleSeq /\ IdleFrm

\* self.transactions.append(transaction) / self.error_records.append(record)
AppendRecord(t) ==
    /\ appenders[t].pc = "idle"
    /\ appenders[t].submitted < MaxAppends
    /\ log_records' = Append(log_records, <<t, appenders[t].submitted + 1>>)
    /\ appenders' = [appenders EXCEPT ![t].pc = "open", ![t].submitted = @ + 1]
    /\ UNCHANGED log_file
    /\ UNCHANGED otherThanLog

\* open(self.transaction_log_file, 'w') / open(self.error_log_file, 'w')
OpenForWriting(t) ==
    /\ appenders[t].pc = "open"
    /\ log_file' = <<>>
    /\ appenders' = [appenders EXCEPT ![t].pc = "dump", ![t].offset = 0]
    /\ UNCHANGED log_records
    /\ UNCHANGED otherThanLog

\* json.dump(self.transactions, f, indent=2) / json.dump(self.error_records, ...)
DumpRecords(t) ==
    /\ appenders[t].pc = "dump"
    /\ appenders' = [appenders EXCEPT ![t].pc = "flush",
                                      ![t].buffer = Serialize(log_records)]
    /\ UNCHANGED <<log_records, log_file>>
    /\ UNCHANGED otherThanLog

\* the buffer reaches the file in pieces; with the last piece the with block
\* is left and the call returns
WriteBuffer(t) ==
    /\ appenders[t].pc = "flush"
    /\ \E k \in 1..Len(appenders[t].buffer) :
        /\ log_file' = WriteAt(log_file, appenders[t].offset,
                               SubSeq(appenders[t].buffer, 1, k))
        /\ appenders' = [appenders EXCEPT
                            ![t].buffer = SubSeq(@, k + 1, Len(@)),
                            ![t].offset = @ + k,
                            ![t].pc = IF k = Len(appenders[t].buffer) THEN "idle" ELSE "flush"]
    /\ UNCHANGED log_records
    /\ UNCHANGED otherThanLog

NextLog ==
    \E t \in Appenders :
        \/ AppendRecord(t)
        \/ OpenForWriting(t)
        \/ DumpRecords(t)
        \/ WriteBuffer(t)

SpecLog == InitLog /\ [][NextLog]_vars

(***************************************************************************)
(* error_system/prevention.py: the list of risk rules.  add_risk_rule      *)
(* appends a rule with a detection function the caller supplies;           *)
(* check_operation_risks calls the detection function of every applicable  *)
(* rule in registration order.  A detection function is known here by its  *)
(* name and answers "True", "False" or "raises".                           *)
(***************************************************************************)
MaxAddedRules == 2          \* rules registered on top of the default ones

otherThanRule == <<txVars, errVars, issVars, plugVars, cacheVars, engVars, thrVars, logVars, valVars, resVars, seqVars, frmVars>>

Answer(b) == IF b THEN "True" ELSE "False"

\* rule['detection_func'](operation_type, parameters); the rules a caller
\* registers here are
\*   lambda op, params: params['distance'] > 5000     (KeyError without distance)
\*   lambda op, params: params.get('input_layer') is None
detection_func(name, operation_type, parameters) ==
    CASE name = "buffer_distance_too_large" ->
            Answer(operation_type = "buffer"
                   /\ GetOr(parameters, "distance", 0) > LargeBufferDistance)
      [] name = "complex_geometry" ->
            Answer(Has(parameters, "input_layer")
                   /\ GetOr(parameters, "input_layer_feature_count", 0) > 10000)
      [] name = "_check_missing_required_parameters" ->
            Answer(_check_missing_required_parameters(operation_type, parameters))
      [] name = "_check_if_error_prone_operation" ->
            Answer(_check_if_error_prone_operation(operation_type, parameters))
      [] name = "distance_above_limit" ->
            IF Has(parameters, "distance") THEN Answer(parameters.distance > 5000)
            ELSE "raises"
      [] name = "unnamed_input" ->
            Answer(GetOr(parameters, "input_layer", None) = None)

\* the rules add_risk_rule is called with
AddedRules ==
    {RiskRule("distance_above_limit", "distance_above_limit", {"*"}),
     RiskRule("distance_above_limit", "distance_above_limit", {"buffer"}),
     RiskRule("unnamed_input", "unnamed_input", {"*"})}

\* applicable_ops == '*' or operation_type in applicable_ops
applies(rule, operation_type) ==
    rule.applicable_ops = {"*"} \/ operation_type \in rule.applicable_ops

\* the loop of check_operation_risks over the rules from index i on
RECURSIVE check_rules_from(_, _, _, _, _)
check_rules_from(rules, i, operation_type, parameters, detected_risks) ==
    IF i > Len(rules)
    THEN [raised |-> FALSE, risks |-> detected_risks]
    ELSE IF ~applies(rules[i], operation_type)
    THEN check_rules_from(rules, i + 1, operation_type, parameters, detected_risks)
    ELSE LET answer == detection_func(rules[i].detection_func, operation_type, parameters)
         IN IF answer = "raises"
            THEN [raised |-> TRUE, risks |-> <<>>]
            ELSE check_rules_from(rules, i + 1, operation_type, parameters,
                    IF answer = "True"
                    THEN Append(detected_risks, Risk(rules[i].rule_id, "risk detected"))
                    ELSE detected_risks)

check_operation_risks_of(rules, operation_type, parameters) ==
    check_rules_from(rules, 1, operation_type, parameters, <<>>)

\* the parameters check_operation_risks is called with: a parameters dict as
\* it is, or the risk_params validate_nlp_command builds from an intent
RiskParameters ==
    ParameterDicts
    \cup {Update([input_layer |-> l, secondary_layer |-> None], p) :
            l \in {None, "roads"}, p \in ParameterDicts}

RiskOperations == {"unknown", "buffer", "clip", "select"}

InitRules ==
    /\ IdleRule
    /\ IdleTx /\ IdleErr /\ IdleIss /\ IdlePlug /\ IdleCache /\ IdleEng /\ IdleThr /\ IdleLog /\ IdleVal /\ IdleRes /\ IdleSeq /\ IdleFrm

\* add_risk_rule(rule_id, detection_func, message, applicable_ops)
AddRiskRule ==
    /\ Len(risk_rules) < Len(default_rules) + MaxAddedRules
    /\ \E rule \in AddedRules : risk_rules' = Append(risk_rules, rule)
    /\ risks_ret' = NoRisks
    /\ UNCHANGED otherThanRule

\* check_operation_risks(operation_type, parameters)
CheckOperationRisks ==
    /\ \E operation_type \in RiskOperations, parameters \in RiskParameters :
        \E checked \in {check_operation_risks_of(risk_rules, operation_type, parameters)} :
            risks_ret' = [op |-> "check_operation_risks",
                          operation_type |-> operation_type,
                          parameters |-> parameters,
                          raised |-> checked.raised,
                          risks |-> checked.risks]
    /\ UNCHANGED risk_rules
    /\ UNCHANGED otherThanRule

NextRules ==
    \/ AddRiskRule
    \/ CheckOperationRisks

SpecRules == InitRules /\ [][NextRules]_vars

(***************************************************************************)
(* plugin_main.py with the error system's loggers in place: what becomes   *)
(* of a command that reached the execution collaborator.  The worker       *)
(* thread runs once started and Qt delivers its finished / error signal    *)
(* to the handler, so those three steps are taken whenever they are        *)
(* enabled; the user is free never to type another command.                *)
(***************************************************************************)
\* _init_components has built the ErrorSystem on a log directory without
\* logs: both loggers are constructed and hold no records
InitExec ==
    /\ components \in [error_system : {TRUE}, qgis_integration : BOOLEAN]
    /\ pc = "idle"
    /\ command = <<>>
    /\ processed_query = <<>>
    /\ outcome = Outcome("none", FALSE, FALSE, <<>>, <<>>, FALSE, FALSE)
    /\ constructed = TRUE
    /\ transaction_log_file = AbsentFile
    /\ backups = {}
    /\ transactions = <<>>
    /\ blobs = <<>>
    /\ clock = 2
    /\ ret = Ret("__init__", NoId, "absent", FALSE, FALSE)
    /\ history = <<>>
    /\ logger_constructed = TRUE
    /\ error_log_file = AbsentFile
    /\ error_backups = {}
    /\ error_records = <<>>
    /\ logger_ret = LoggerRet("__init__", "absent", FALSE)
    /\ IdleIss /\ IdleCache /\ IdleEng /\ IdleThr /\ IdleLog /\ IdleRule /\ IdleVal /\ IdleRes /\ IdleSeq /\ IdleFrm

\* the intents followed to their execution: buffer and clip commands
ExecResults ==
    [operation : {"buffer", "clip"},
     input_layer : {None, "roads"},
     secondary_layer : {None, "parcels"},
     parameters : {EmptyDict, [distance |-> 100]},
     spatial_relationship : {None},
     confidence : {90},
     original_text : {"text"}]

\* process_command for one of these intents
process_command_exec ==
    /\ pc \in {"idle", "done"}
    /\ \E enhanced_result \in ExecResults :
       \E context \in {EmptyDict} \cup
                      (IF components.qgis_integration THEN CurrentContexts ELSE {}) :
            command' = [enhanced_result |-> enhanced_result, context |-> context]
    /\ pc' = "processing"
    /\ processed_query' = <<>>
    /\ outcome' = Outcome("none", FALSE, FALSE, <<>>, <<>>, FALSE, FALSE)
    /\ UNCHANGED components
    /\ UNCHANGED otherThanPlug

NextExec ==
    \/ process_command_exec
    \/ NLPProcessingThread_run
    \/ _on_processing_finished
    \/ _on_processing_failed

SpecExec ==
    /\ InitExec
    /\ [][NextExec]_vars
    \* weak fairness of NLPProcessingThread_run, by its enabling condition: the
    \* step is enabled exactly when pc = "processing" and always leaves it
    /\ []<>(pc # "processing")
    /\ WF_vars(_on_processing_finished)
    /\ WF_vars(_on_processing_failed)

(***************************************************************************)
(* The validators on one intent: NLPQueryParser.validate_query,            *)
(* ProactiveErrorPrevention.validate_nlp_command with the default rules,   *)
(* and ErrorSystem.validate_nlp_command.                                   *)
(***************************************************************************)
otherThanVal == <<txVars, errVars, issVars, plugVars, cacheVars, engVars, thrVars, logVars, ruleVars, resVars, seqVars, frmVars>>

\* the intents the validators are given: what the engine and the parser can
\* hand on, distances in metres
ValidatedIntents ==
    [operation : {"unknown", "buffer", "clip", "union", "select"},
     input_layer : {None, "roads"},
     secondary_layer : {None, "parcels"},
     parameters : ParameterDicts \cup {[distance |-> -5]},
     spatial_relationship : {None, "within"},
     confidence : Confidences,
     original_text : {"text"}]

InitValidate ==
    /\ validated_intent \in ValidatedIntents
    /\ validate_query_ret = NotCalled
    /\ prevention_ret = NotCalled
    /\ error_system_ret = NotCalled
    /\ IdleTx /\ IdleErr /\ IdleIss /\ IdlePlug /\ IdleCache /\ IdleEng /\ IdleThr /\ IdleLog /\ IdleRule /\ IdleRes /\ IdleSeq /\ IdleFrm

\* NLPQueryParser.validate_query(parsed_query)
ValidateQuery ==
    /\ validate_query_ret' = [called |-> TRUE, issues |-> validate_query(validated_intent)]
    /\ UNCHANGED <<validated_intent, prevention_ret, error_system_ret>>
    /\ UNCHANGED otherThanVal

\* ProactiveErrorPrevention.validate_nlp_command(nlp_result)
PreventionValidateNlpCommand ==
    /\ prevention_ret' = [called |-> TRUE, issues |-> validate_nlp_command(validated_intent)]
    /\ UNCHANGED <<validated_intent, validate_query_ret, error_system_ret>>
    /\ UNCHANGED otherThanVal

\* ErrorSystem.validate_nlp_command(nlp_result): the tuple it returns, or the
\* KeyError that leaves it
ErrorSystemValidateNlpCommand ==
    /\ \E v \in {ErrorSystem_validate_nlp_command(validated_intent)} :
          error_system_ret' =
              IF v.raised THEN [called |-> TRUE, raised |-> TRUE]
              ELSE [called |-> TRUE, raised |-> FALSE, is_valid |-> v.is_valid,
                    issues |-> v.issues, suggestions |-> v.suggestions]
    /\ UNCHANGED <<validated_intent, validate_query_ret, prevention_ret>>
    /\ UNCHANGED otherThanVal

NextValidate ==
    \/ ValidateQuery
    \/ PreventionValidateNlpCommand
    \/ ErrorSystemValidateNlpCommand

SpecValidate == InitValidate /\ [][NextValidate]_vars

(***************************************************************************)
(* ParameterResolver.resolve_parameters on one call.                       *)
(***************************************************************************)
otherThanRes == <<txVars, errVars, issVars, plugVars, cacheVars, engVars, thrVars, logVars, ruleVars, valVars, seqVars, frmVars>>

\* map scales on both sides of each step of the table
Scales == {500, 1000, 1001, 10000, 10001, 100000, 100001, 1000000, 1000001}

ViewExtent == [xmin |-> 0, ymin |-> 0, xmax |-> 1000, ymax |-> 1000]

\* context None, a context with a scale, and one with an extent only
ResolverContexts ==
    {EmptyDict, [extent |-> ViewExtent]}
    \cup {[scale |-> s, extent |-> ViewExtent] : s \in Scales}

ResolverOperations == {"buffer", "clip", "intersection", "select"}

InitResolve ==
    /\ resolve_call \in [operation_type : ResolverOperations,
                         parsed_params : ParameterDicts,
                         context : ResolverContexts]
    /\ resolve_ret = NotCalled
    /\ IdleTx /\ IdleErr /\ IdleIss /\ IdlePlug /\ IdleCache /\ IdleEng /\ IdleThr /\ IdleLog /\ IdleRule /\ IdleVal /\ IdleSeq /\ IdleFrm

\* resolve_parameters(operation_type, parsed_params, context)
ResolveParameters ==
    /\ resolve_ret' = [called |-> TRUE,
                       resolved_params |-> resolve_parameters(resolve_call.operation_type,
                                                              resolve_call.parsed_params,
                                                              resolve_call.context)]
    /\ UNCHANGED resolve_call
    /\ UNCHANGED otherThanRes

NextResolve == ResolveParameters

SpecResolve == InitResolve /\ [][NextResolve]_vars

(***************************************************************************)
(* QueryOptimizer.optimize_query_sequence on one batch.                    *)
(***************************************************************************)
otherThanSeq == <<txVars, errVars, issVars, plugVars, cacheVars, engVars, thrVars, logVars, ruleVars, valVars, resVars, frmVars>>

\* the longest batch
MaxBatch == 3

operation_priority(operation) ==
    CASE operation = "select" -> 1
      [] operation = "buffer" -> 2
      [] operation = "clip" -> 3
      [] operation = "intersection" -> 4
      [] operation = "union" -> 5
      [] OTHER -> 99

\* the keys of operation_groups, in the order the loop inserted them
RECURSIVE group_keys(_)
group_keys(queries) ==
    IF queries = <<>> THEN <<>>
    ELSE LET earlier == group_keys(SubSeq(queries, 1, Len(queries) - 1))
             operation == queries[Len(queries)].operation
         IN IF \E k \in DOMAIN earlier : earlier[k] = operation
            THEN earlier ELSE Append(earlier, operation)

\* operation_groups[operation]: the (index, query) pairs of one operation
operation_group(queries, operation) ==
    LET of_operation(pair) == pair[2].operation = operation
    IN SelectSeq([i \in DOMAIN queries |-> <<i - 1, queries[i]>>], of_operation)

\* sorted(keys, key=priority): Python's sort is stable
RECURSIVE sorted_by_priority(_)
sorted_by_priority(keys) ==
    IF keys = <<>> THEN <<>>
    ELSE LET rest == sorted_by_priority(SubSeq(keys, 1, Len(keys) - 1))
             last == keys[Len(keys)]
             stays(operation) == operation_priority(operation) <= operation_priority(last)
             moves(operation) == operation_priority(operation) > operation_priority(last)
         IN SelectSeq(rest, stays) \o <<last>> \o SelectSeq(rest, moves)

RECURSIVE rebuild_sequence(_, _)
rebuild_sequence(queries, sorted_operations) ==
    IF sorted_operations = <<>> THEN <<>>
    ELSE LET group == operation_group(queries, Head(sorted_operations))
         IN [k \in DOMAIN group |->
                With(optimize_query(group[k][2]), "original_sequence_index", group[k][1])]
            \o rebuild_sequence(queries, Tail(sorted_operations))

optimize_query_sequence_in_given_order(queries) ==
    rebuild_sequence(queries, group_keys(queries))

optimize_query_sequence(queries) ==
    rebuild_sequence(queries, sorted_by_priority(group_keys(queries)))

\* intents of the five ranked operations and of two the table does not rank
BatchOperations ==
    {"select", "buffer", "clip", "intersection", "union", "dissolve", "merge"}

BatchQueries ==
    [operation : BatchOperations,
     input_layer : {None, "roads"},
     secondary_layer : {None},
     parameters : {EmptyDict}]

Batches == UNION {[1..n -> BatchQueries] : n \in 0..MaxBatch}

InitSequence ==
    /\ sequence_call \in Batches
    /\ sequence_ret = NotCalled
    /\ IdleTx /\ IdleErr /\ IdleIss /\ IdlePlug /\ IdleCache /\ IdleEng /\ IdleThr /\ IdleLog /\ IdleRule /\ IdleVal /\ IdleRes /\ IdleFrm

\* optimize_query_sequence(queries)
OptimizeQuerySequence ==
    /\ sequence_ret' = [called |-> TRUE,
                        optimized_sequence |-> optimize_query_sequence(sequence_call)]
    /\ UNCHANGED sequence_call
    /\ UNCHANGED otherThanSeq

NextSequence == OptimizeQuerySequence

SpecSequence == InitSequence /\ [][NextSequence]_vars

(***************************************************************************)
(* TransactionLogger: persisting the log when a record cannot be written   *)
(* as JSON, and the start-up that follows.                                 *)
(***************************************************************************)
\* the clock reading after which the process is not restarted any more
MaxClock == 9

\* a parameter value json cannot encode (a layer object, a geometry)
NotJson == "object"

LoggedParameters == {[layer |-> "roads"], [layer |-> NotJson]}

json_serializable(transaction) ==
    \A k \in DOMAIN transaction.parameters : transaction.parameters[k] # NotJson

\* _save_transaction_log: open(file, 'w') empties the file, json.dump writes
\* the records one after the other and raises at the first value it cannot
\* encode; the exception is logged and the part written so far stays
save_transactions(txs) ==
    IF \A i \in DOMAIN txs : json_serializable(txs[i])
    THEN _save_transaction_log(txs)
    ELSE CorruptFile

\* log_operation(operation_type, parameters) without result and snapshot
log_operation_parameters(txs, bl, file, clk, operation_type, parameters) ==
    LET logged == log_operation(txs, bl, file, clk, operation_type, FALSE, None)
        transaction == With(logged.transactions[Len(logged.transactions)],
                            "parameters", parameters)
        newtxs == Append(txs, transaction)
    IN [transaction_id |-> logged.transaction_id,
        transactions |-> newtxs,
        file |-> save_transactions(newtxs)]

InitPersist ==
    /\ constructed = FALSE
    /\ transaction_log_file \in {AbsentFile, EmptyListFile}
    /\ backups = {}
    /\ transactions = <<>>
    /\ blobs = <<>>
    /\ clock = 0
    /\ ret = Ret("none", NoId, None, FALSE, FALSE)
    /\ history = <<>>
    /\ IdleErr /\ IdleIss /\ IdlePlug /\ IdleCache /\ IdleEng /\ IdleThr /\ IdleLog /\ IdleRule /\ IdleVal /\ IdleRes /\ IdleSeq /\ IdleFrm

LogOperationParameters ==
    /\ constructed
    /\ Len(transactions) < MaxTx
    /\ \E operation_type \in OperationTypes, parameters \in LoggedParameters :
         LET r == log_operation_parameters(transactions, blobs, transaction_log_file,
                                           clock, operation_type, parameters)
         IN /\ transactions' = r.transactions
            /\ transaction_log_file' = r.file
            /\ ret' = Ret("log_operation", r.transaction_id, None, FALSE, FALSE)
    /\ clock' \in Later(clock)
    /\ UNCHANGED <<constructed, backups, blobs, history>>
    /\ UNCHANGED otherThanTx

\* the plugin is unloaded or QGIS closes: the object is gone, the files stay
ProcessExit ==
    /\ constructed
    /\ clock < MaxClock
    /\ constructed' = FALSE
    /\ transactions' = <<>>
    /\ ret' = Ret("exit", NoId, None, FALSE, FALSE)
    /\ UNCHANGED <<transaction_log_file, backups, blobs, clock, history>>
    /\ UNCHANGED otherThanTx

NextPersist ==
    \/ TransactionLogger__init__
    \/ LogOperationParameters
    \/ ProcessExit

SpecPersist == InitPersist /\ [][NextPersist]_vars

(***************************************************************************)
(* QueryOptimizer.optimize_query and add_warnings_for_expensive_queries    *)
(* on dicts that share their nested containers.  dict.copy() is shallow:   *)
(* the copy has its own keys and refers to the same parameters dict,       *)
(* optimizations dict and warnings list as the original.  An intent is     *)
(* kept as its scalar keys and the addresses of its containers (0: the key *)
(* is absent); objects[address] is the container.                          *)
(***************************************************************************)
otherThanFrm == <<txVars, errVars, issVars, plugVars, cacheVars, engVars, thrVars, logVars, ruleVars, valVars, resVars, seqVars>>

\* intents (inputs and results together) per behaviour
MaxHeldIntents == 3

large_dataset_threshold == 50000
max_features == 10000
memory_limit_mb == 512
limit_features == FALSE
use_spatial_index == TRUE

BytesPerMb == 1024 * 1024

\* the stats get_layer_statistics collects from a layer; the size estimate is
\* kept in bytes (the code divides by 1024 * 1024 and compares megabytes)
layer_statistics(feature_count, has_spatial_index, geometry_type, field_count, extent_area) ==
    LET avg_feature_size_bytes ==
            100 + (IF field_count > 0 THEN field_count * 20 ELSE 0)
                + (IF geometry_type = 2 THEN 500 ELSE IF geometry_type = 1 THEN 200 ELSE 0)
    IN [feature_count |-> feature_count,
        has_spatial_index |-> has_spatial_index,
        geometry_type |-> geometry_type,
        field_count |-> field_count,
        estimated_size_bytes |-> feature_count * avg_feature_size_bytes,
        extent_area |-> extent_area,
        is_large_dataset |-> feature_count > large_dataset_threshold]

\* no project, and a project with a large line layer and a small polygon layer
Projects ==
    {EmptyDict,
     [roads |-> layer_statistics(60000, TRUE, 1, 2, 10000),
      parcels |-> layer_statistics(100, FALSE, 2, 2, 10000)]}

\* {} without a project and for a name no layer of the project has
layer_statistics_in(layers, layer_name) ==
    IF Has(layers, layer_name) THEN layers[layer_name] ELSE EmptyDict

_optimize_overlay_query(query, input_stats, overlay_stats) ==
    LET operation == query.operation
        input_count == GetOr(input_stats, "feature_count", 0)
        overlay_count == GetOr(overlay_stats, "feature_count", 0)
        o0 == GetOr(query, "optimizations", EmptyDict)
        o1 == IF operation = "union" /\ (input_count > 5000 \/ overlay_count > 5000)
              THEN Update(o0, [algorithm |-> "native:union", memory_efficient |-> TRUE,
                               reason |-> "Large dataset union optimization"])
              ELSE o0
        o2 == IF /\ operation = "intersection"
                 /\ Min(input_count, overlay_count) > 0
                 /\ Max(input_count, overlay_count) > 10 * Min(input_count, overlay_count)
                 /\ input_count > overlay_count
              THEN Update(o1, [swap_inputs |-> TRUE, reason |-> "Size difference optimization"])
              ELSE o1
        o3 == IF operation = "clip" /\ overlay_count > input_count * 5
              THEN Update(o2, [spatial_index_critical |-> TRUE,
                               reason |-> "Large overlay layer optimization"])
              ELSE o2
        o4 == IF input_count + overlay_count > 100000
              THEN Update(o3, [high_memory_operation |-> TRUE, suggested_batch_size |-> 10000])
              ELSE o3
    IN With(query, "optimizations", o4)

\* str.count: occurrences of p in s from position i on, not overlapping
RECURSIVE str_count(_, _, _)
str_count(s, p, i) ==
    IF i + Len(p) - 1 > Len(s) THEN 0
    ELSE IF MatchAt(s, i, p) THEN 1 + str_count(s, p, i + Len(p))
    ELSE str_count(s, p, i + 1)

expression_operators ==
    <<<<"A", "N", "D">>, <<"O", "R">>, <<">">>, <<"<">>, <<"=">>, <<"L", "I", "K", "E">>>>

spatial_keywords == <<"intersects", "contains", "within", "distance">>

RECURSIVE operator_count(_, _)
operator_count(expression, operators) ==
    IF operators = <<>> THEN 0
    ELSE str_count(expression, Head(operators), 1) + operator_count(expression, Tail(operators))

_optimize_select_query(query, layer_stats) ==
    LET params == query.parameters
        expression == IF Has(params, "expression") THEN Chars(params["expression"]) ELSE <<>>
        large == GetOr(layer_stats, "feature_count", 0) > 10000
        o0 == GetOr(query, "optimizations", EmptyDict)
        o1 == IF large THEN With(o0, "use_spatial_index", TRUE) ELSE o0
        o2 == IF large /\ Occurring(spatial_keywords, str_lower(expression)) # <<>>
              THEN Update(o1, [spatial_first |-> TRUE,
                               reason |-> "Spatial query on large dataset"])
              ELSE o1
        o3 == IF expression # <<>> /\ operator_count(expression, expression_operators) > 5
              THEN Update(o2, [complex_expression |-> TRUE,
                               reason |-> "Complex expression detected"])
              ELSE o2
    IN With(query, "optimizations", o3)

\* _estimate_processing_time reads feature_count only
QueryOptimizer_optimize_query(layers, query) ==
    LET operation == query.operation
        input_stats == IF query.input_layer # None
                       THEN layer_statistics_in(layers, query.input_layer) ELSE EmptyDict
        secondary_stats == IF query.secondary_layer # None
                           THEN layer_statistics_in(layers, query.secondary_layer)
                           ELSE EmptyDict
        optimized == IF operation = "buffer"
                     THEN _optimize_buffer_query(query, input_stats)
                     ELSE IF operation \in {"clip", "intersection", "union"}
                     THEN _optimize_overlay_query(query, input_stats, secondary_stats)
                     ELSE IF operation = "select"
                     THEN _optimize_select_query(query, input_stats)
                     ELSE query
        large_dataset ==
            \/ GetOr(input_stats, "feature_count", 0) > max_features
            \/ GetOr(input_stats, "estimated_size_bytes", 0) > memory_limit_mb * BytesPerMb
        o0 == With(GetOr(optimized, "optimizations", EmptyDict), "use_spatial_index",
                   use_spatial_index /\ GetOr(input_stats, "has_spatial_index", FALSE))
        o1 == IF large_dataset /\ limit_features
              THEN Update(o0, [limit_features |-> TRUE, max_features |-> max_features,
                               reason |-> "Large dataset detected"])
              ELSE o0
        o2 == With(o1, "estimated_processing_time",
                   _estimate_processing_time(operation, input_stats, secondary_stats))
    IN With(optimized, "optimizations", o2)

Warning(type, message) == [type |-> type, message |-> message, severity |-> "warning"]

\* the warnings the call appends, in order
expensive_query_warnings(layers, query) ==
    IF query.input_layer = None THEN <<>>
    ELSE LET stats == layer_statistics_in(layers, query.input_layer)
             distance == GetOr(query.parameters, "distance", 0)
             extent_area == GetOr(stats, "extent_area", 0)
             estimated_memory == GetOr(stats, "estimated_size_bytes", 0)
         IN (IF GetOr(stats, "feature_count", 0) > large_dataset_threshold
             THEN <<Warning("performance", "Large dataset detected")>> ELSE <<>>)
            \o (IF /\ query.operation = "buffer"
                   /\ distance > 0
                   /\ extent_area > 0
                   \* 3.14159 * distance * distance / extent_area > 0.5
                   /\ distance * distance > (50000 * extent_area) \div 314159
                THEN <<Warning("geometry", "Buffer distance is very large")>> ELSE <<>>)
            \o (IF /\ query.operation \in {"union", "intersection"}
                   /\ estimated_memory > memory_limit_mb * BytesPerMb
                THEN <<Warning("memory", "Operation may require significant memory")>>
                ELSE <<>>)

QueryOptimizer_add_warnings(layers, query) ==
    With(query, "warnings",
         GetOr(query, "warnings", <<>>) \o expensive_query_warnings(layers, query))

\* the dict an intent and its containers amount to
IntentValue(held, containers, i) ==
    LET intent == held[i]
        scalars == [operation |-> intent.operation,
                    input_layer |-> intent.input_layer,
                    secondary_layer |-> intent.secondary_layer,
                    parameters |-> containers[intent.parameters]]
        optimized == IF intent.optimizations # 0
                     THEN With(scalars, "optimizations", containers[intent.optimizations])
                     ELSE scalars
    IN IF intent.warnings # 0
       THEN With(optimized, "warnings", containers[intent.warnings])
       ELSE optimized

\* intents as the parser hands them over: no optimizations, no warnings
FrameIntents ==
    [operation : {"buffer"}, input_layer : {"roads"}, secondary_layer : {None},
     parameters : {EmptyDict, [distance |-> 5], [distance |-> 100, segments |-> 8]}]
    \cup
    [operation : {"clip", "union"}, input_layer : {"roads"}, secondary_layer : {"parcels"},
     parameters : {EmptyDict}]
    \cup
    [operation : {"select"}, input_layer : {"roads"}, secondary_layer : {None},
     parameters : {EmptyDict, [expression |-> "population > 1000"]}]

InitFrame ==
    /\ project \in Projects
    /\ \E intent \in FrameIntents :
         /\ intents = <<[operation |-> intent.operation,
                         input_layer |-> intent.input_layer,
                         secondary_layer |-> intent.secondary_layer,
                         parameters |-> 1, optimizations |-> 0, warnings |-> 0]>>
         /\ objects = <<intent.parameters>>
    /\ frame_call = NotCalled
    /\ IdleTx /\ IdleErr /\ IdleIss /\ IdlePlug /\ IdleCache /\ IdleEng /\ IdleThr /\ IdleLog /\ IdleRule /\ IdleVal /\ IdleRes /\ IdleSeq

\* optimize_query(query) on an intent the caller holds; the result is held too
OptimizeQuery ==
    /\ Len(intents) < MaxHeldIntents
    /\ \E i \in DOMAIN intents :
         LET query == intents[i]
             before == IntentValue(intents, objects, i)
             result == QueryOptimizer_optimize_query(project, before)
             \* _optimize_buffer_query stores a copy of the parameters
             with_params == IF query.operation = "buffer"
                            THEN Append(objects, result.parameters) ELSE objects
             params_at == IF query.operation = "buffer"
                          THEN Len(with_params) ELSE query.parameters
             \* every write goes to optimized['optimizations']: the input's
             \* dict when it had one, a new dict otherwise
             with_opts == IF query.optimizations # 0
                          THEN [with_params EXCEPT
                                   ![query.optimizations] = result.optimizations]
                          ELSE Append(with_params, result.optimizations)
             opts_at == IF query.optimizations # 0
                        THEN query.optimizations ELSE Len(with_opts)
         IN /\ objects' = with_opts
            /\ intents' = Append(intents, [query EXCEPT !.parameters = params_at,
                                                        !.optimizations = opts_at])
            /\ frame_call' = [called |-> TRUE, method |-> "optimize_query",
                              input |-> i, before |-> before]
    /\ UNCHANGED project
    /\ UNCHANGED otherThanFrm

\* add_warnings_for_expensive_queries(query) on an intent the caller holds
AddWarningsForExpensiveQueries ==
    /\ Len(intents) < MaxHeldIntents
    /\ \E i \in DOMAIN intents :
         LET query == intents[i]
             before == IntentValue(intents, objects, i)
             result == QueryOptimizer_add_warnings(project, before)
             \* the appends go to warned_query['warnings']: the input's list
             \* when it had one, a new list otherwise
             with_warnings == IF query.warnings # 0
                              THEN [objects EXCEPT ![query.warnings] = result.warnings]
                              ELSE Append(objects, result.warnings)
             warnings_at == IF query.warnings # 0
                            THEN query.warnings ELSE Len(with_warnings)
         IN /\ objects' = with_warnings
            /\ intents' = Append(intents, [query EXCEPT !.warnings = warnings_at])
            /\ frame_call' = [called |-> TRUE,
                              method |-> "add_warnings_for_expensive_queries",
                              input |-> i, before |-> before]
    /\ UNCHANGED project
    /\ UNCHANGED otherThanFrm

NextFrame ==
    \/ OptimizeQuery
    \/ AddWarningsForExpensiveQueries

SpecFrame == InitFrame /\ [][NextFrame]_vars

(***************************************************************************)
(* Properties of the transaction logger.                                   *)
(***************************************************************************)
\* C3: after a log_operation call made with save_state=true and non-null
\* state data returns, at most max_stored_states records have
\* has_state_snapshot=true and at most that many blobs are on storage.
C3_AtMostMaxStoredStates ==
    (ret.op = "log_operation" /\ ret.save /\ ret.data # None) =>
        /\ Cardinality(StateTransactions(transactions)) <= max_stored_states
        /\ Cardinality(DOMAIN blobs) <= max_stored_states

\* C4: every record with has_state_snapshot=true has a backing blob that
\* get_state_snapshot returns, and every record with has_state_snapshot=false
\* yields None.
C4_FlagMatchesBlob ==
    \A i \in 1..Len(transactions) :
        LET t == transactions[i]
            r == get_state_snapshot(transactions, blobs, transaction_log_file, t.transaction_id)
        IN IF t.has_state_snapshot
           THEN /\ _get_state_snapshot_path(t.state_id) \in DOMAIN blobs
                /\ r.data # None
                /\ r.data = blobs[_get_state_snapshot_path(t.state_id)]
           ELSE r.data = None

\* C5: the transaction_id (and state_id, when a snapshot is saved) returned by
\* log_operation differs from those of all earlier records in the log.
C5_FreshTransactionId ==
    ret.op = "log_operation" =>
        \A i \in 1..(Len(transactions) - 1) :
            /\ transactions[i].transaction_id # ret.id
            /\ transactions[Len(transactions)].state_id # NoId =>
                 transactions[i].state_id # transactions[Len(transactions)].state_id

\* C6: when log_operation saved state data s under an id and that snapshot has
\* not been pruned, get_state_snapshot(id) and rollback_to_transaction(id)
\* return exactly s.
C6_RollbackReturnsSavedState ==
    ret.op \in {"get_state_snapshot", "rollback_to_transaction"} =>
        \A i \in 1..Len(transactions) :
            (/\ transactions[i].transaction_id = ret.id
             /\ history[i].saved # None
             /\ ~history[i].pruned) => ret.data = history[i].saved

\* the snapshot of record i loads: the record is flagged, its blob is on
\* storage and unpickles
Loads(txs, bl, i) ==
    /\ txs[i].has_state_snapshot
    /\ txs[i].state_id # NoId
    /\ _get_state_snapshot_path(txs[i].state_id) \in DOMAIN bl
    /\ bl[_get_state_snapshot_path(txs[i].state_id)] # CorruptBlob

NewestLoadable(txs, bl) ==
    LET L == {i \in 1..Len(txs) : Loads(txs, bl, i)}
    IN IF L = {}
       THEN [id |-> NoId, data |-> None]
       ELSE LET n == CHOOSE i \in L : \A j \in L : Rank(txs, i) <= Rank(txs, j)
            IN [id |-> txs[n].transaction_id,
                data |-> bl[_get_state_snapshot_path(txs[n].state_id)]]

\* C7: get_latest_state_snapshot returns the (transaction_id, data) of the
\* newest-by-timestamp record whose snapshot loads, whatever the content of
\* the loaded data, and None only when no record's snapshot loads.
C7_LatestIsNewestLoadable ==
    [][ret'.op = "get_latest_state_snapshot" =>
         /\ ret'.id = NewestLoadable(transactions, blobs).id
         /\ ret'.data = NewestLoadable(transactions, blobs).data]_vars

C9_CorruptErrorLogBackedUp ==
    (logger_ret.op = "__init__" /\ logger_ret.found = "invalid json") =>
        /\ ~logger_ret.raised
        /\ logger_constructed
        /\ error_records = <<>>
        /\ ~error_log_file.exists
        /\ \E b \in error_backups : b.content = CorruptFile

C2_PreventIffError ==
    prevent_ret.op = "should_prevent_execution"
        => (prevent_ret.value
              <=> \E i \in 1..Len(prevent_ret.issues) : prevent_ret.issues[i].severity = "error")

C2_Witness ==
    /\ prevent_ret.op = "should_prevent_execution"
    /\ Len(prevent_ret.issues) >= 2
    /\ prevent_ret.issues[1].severity = "warning"
    /\ prevent_ret.issues[Len(prevent_ret.issues)].severity = "error"
    /\ prevent_ret.value

(***************************************************************************)
(* Properties of the interpretation cache.                                 *)
(***************************************************************************)
IsSuffix(s, t) == Len(s) <= Len(t) /\ s = SubSeq(t, Len(t) - Len(s) + 1, Len(t))

\* C10: after every process_command call the cache holds at most
\* max_cache_size entries; an insertion that takes it above capacity drops
\* entries from the old end of the insertion order only, and the entry just
\* inserted stays, as the newest one.
C10_CacheBoundedFifo ==
    [][LET inserted == [key |-> engine_ret'.key, result |-> engine_ret'.result]
           stored == Append(query_cache, inserted)
       IN /\ Len(query_cache') <= max_cache_size
          /\ query_cache' # query_cache
               => /\ IsSuffix(query_cache', stored)
                  /\ query_cache'[Len(query_cache')] = inserted
                  /\ Len(stored) <= max_cache_size => query_cache' = stored
                  /\ Len(stored) > max_cache_size => Len(query_cache') < Len(stored)
      ]_vars

\* an insertion has just evicted: the cache is back at half its capacity
C10_Witness ==
    /\ engine_ret.op = "process_command"
    /\ engine_ret.result.processing_method = "merged"
    /\ ~Has(engine_ret.result, "from_cache")
    /\ texts_seen > max_cache_size
    /\ Len(query_cache) = 0 - ((-max_cache_size) \div 2)
    /\ query_cache[Len(query_cache)].key = engine_ret.key

(***************************************************************************)
(* Properties of the interpretation chain.                                 *)
(***************************************************************************)
\* C11: a cache hit returns, apart from from_cache, a result equal to the one
\* the first call for the same key returned, as it was when it was returned,
\* whatever the caller has done to that result and its parameters since
C11_HitIsValueCopy ==
    stages.status = "hit"
        => Without(stages.nlp_result, "from_cache") = first_returned[engine_ret.key]


\* C14: every stage that adjusts confidence (merge with active-layer matching,
\* disambiguation, the query parser's pattern enhancement) gives out a
\* confidence at least the one it took in and at most 1.0 (100 hundredths);
\* the merged confidence is at least the larger of the entity and context
\* confidences (the context result carries none, which counts as 0)
C14_ConfidenceMonotoneBounded ==
    /\ stages.status = "miss"
        => /\ stages.merged.confidence >= Max(stages.entity_result.confidence, 0)
           /\ stages.merged.confidence <= 100
           /\ stages.nlp_result.confidence >= stages.merged.confidence
           /\ stages.nlp_result.confidence <= 100
    /\ stages.status \in {"miss", "hit"}
        => /\ stages.enhanced_result.confidence >= stages.nlp_result.confidence
           /\ stages.enhanced_result.confidence <= 100

\* C15: a buffer command that names an active layer and states a distance in
\* meters, kilometers, feet or miles resolves to operation "buffer" on that
\* layer with parameters.distance the stated distance in meters (km x 1000,
\* ft x 0.3048, mi x 1609.34), parameters.unit "meters", and a validation
\* that does not block; "Buffer the rivers layer by 2 kilometers" gives 2000
C15_BufferDistanceInMeters ==
    LET in_meters(d) == CASE d = <<"100", "meters">> -> 100
                          [] d = <<"2", "kilometers">> -> 2 * 1000
                          [] d = <<"1250", "feet">> -> (1250 * 3048) \div 10000
                          [] d = <<"50", "miles">> -> (50 * 160934) \div 100
        resolves(layer, meters) ==
            /\ stages.processed_query.operation = "buffer"
            /\ stages.processed_query.input_layer = layer
            /\ Has(stages.processed_query.parameters, "distance")
            /\ stages.processed_query.parameters.distance = meters
            /\ Has(stages.processed_query.parameters, "unit")
            /\ stages.processed_query.parameters.unit = "meters"
            /\ verdict.status = "validated" => ~verdict.raised /\ verdict.is_valid
    IN stages.status \in {"miss", "hit"}
        => /\ \A d \in StatedDistances :
                stages.text = BufferCommand("roads", d[1], d[2])
                    => resolves("roads", in_meters(d))
           /\ stages.text = Spell(<<"Buffer", "the", "rivers", "layer", "by", "2", "kilometers">>)
                    => resolves("rivers", 2000)

C17_LayerInferredFromContext ==
    (/\ stages.status = "miss"
     /\ stages.text = Spell(<<"buffer", "by", "100", "meters">>)
     /\ ContextLayerNames(stages.context) # <<>>)
        => /\ stages.nlp_result.input_layer = ContextLayerNames(stages.context)[1]
           /\ Has(stages.nlp_result.parameters, "auto_inferred_layer")
           /\ stages.nlp_result.parameters.auto_inferred_layer = TRUE
           /\ Has(stages.nlp_result, "disambiguation_applied")
           /\ stages.nlp_result.disambiguation_applied = TRUE

\* C18: validating a clip intent that has an input layer and no secondary
\* layer through ErrorSystem.validate_nlp_command returns is_valid false, an
\* issue of type missing_secondary_layer, and a suggestion that names the
\* clip operation and lists candidate layers
C18_ClipWithoutOverlaySuggested ==
    (/\ verdict.status = "validated"
     /\ stages.processed_query.operation = "clip"
     /\ stages.processed_query.input_layer # None
     /\ stages.processed_query.secondary_layer = None)
        => /\ ~verdict.raised
           /\ ~verdict.is_valid
           /\ \E i \in 1..Len(verdict.issues) :
                /\ Has(verdict.issues[i], "type")
                /\ verdict.issues[i].type = "missing_secondary_layer"
           /\ \E i \in 1..Len(verdict.suggestions) :
                /\ verdict.suggestions[i].operation = "clip"
                /\ verdict.suggestions[i].layers # <<>>

C27_ContextIsPerCommand ==
    stages.status = "miss"
        => LET supplied == ContextLayerNames(stages.context)
               crs == IF DOMAIN stages.context = {} THEN None ELSE stages.context.crs
               fresh == IF supplied # <<>> \/ IsSet(crs) THEN supplied ELSE <<>>
           IN stages.nlp_result
                  = Interpreted[Command(stages.text, stages.context), fresh].nlp_result

(***************************************************************************)
(* Properties of concurrent calls of process_command.                      *)
(***************************************************************************)
\* C12: when two threads have run process_command concurrently, the cache is
\* not above capacity, holds the entry each thread stored, and neither call
\* raised or returned the error-fallback result: insertion with eviction
\* behaved as one atomic step
C12_ConcurrentCachingAtomic ==
    (\A t \in Threads : callers[t].pc = "done")
        => /\ Len(query_cache) <= max_cache_size
           /\ \A t \in Threads :
                /\ callers[t].outcome \in {"merged", "from_cache"}
                /\ callers[t].outcome = "merged" => InCache(query_cache, CallerKey(t))

(***************************************************************************)
(* Properties of concurrent appends to a log.                              *)
(***************************************************************************)
\* C13: once every concurrent log_operation / log_error / log_action call has
\* returned, the log file is a well-formed list that holds every appended
\* record exactly once, each caller's records in the order it submitted them
C13_ConcurrentAppendsAtomic ==
    (log_records # <<>> /\ \A t \in Appenders : appenders[t].pc = "idle")
        => /\ Len(log_file) = Len(log_records) + 2
           /\ log_file[1] = OpenBracket /\ log_file[Len(log_file)] = CloseBracket
           /\ \A i \in 2..Len(log_file) - 1 : IsRecord(log_file[i])
           /\ \A t \in Appenders : \A n \in 1..appenders[t].submitted :
                \E i \in 2..Len(log_file) - 1 : log_file[i] = <<t, n>>
           /\ \A i, j \in 2..Len(log_file) - 1 :
                (i < j /\ log_file[i][1] = log_file[j][1])
                    => log_file[i][2] < log_file[j][2]

(***************************************************************************)
(* Properties of the risk rules.                                           *)
(***************************************************************************)
\* C19: when the detection function of one registered rule raises,
\* check_operation_risks still returns, and what it returns holds the risk
\* of every other applicable rule whose detection function answers true
C19_BadRuleIsolated ==
    risks_ret.op = "check_operation_risks"
        => /\ ~risks_ret.raised
           /\ \A i \in 1..Len(risk_rules) :
                (/\ applies(risk_rules[i], risks_ret.operation_type)
                 /\ detection_func(risk_rules[i].detection_func,
                                   risks_ret.operation_type,
                                   risks_ret.parameters) = "True")
                    => \E j \in 1..Len(risks_ret.risks) :
                            risks_ret.risks[j].rule_id = risk_rules[i].rule_id

C21_ValidationReturnsStructured ==
    error_system_ret.called
        => /\ ~error_system_ret.raised
           /\ \A i \in 1..Len(error_system_ret.issues) :
                  {"type", "message", "severity"} \subseteq DOMAIN error_system_ret.issues[i]

\* C22: validate_query on a buffer intent whose distance is zero or negative
\* reports the distance (it must be greater than zero) with severity error;
\* a distance above 10000 is reported as a warning only.
C22_BufferDistanceSeverity ==
    (/\ validate_query_ret.called
     /\ validated_intent.operation = "buffer"
     /\ Has(validated_intent.parameters, "distance"))
        => LET distance == validated_intent.parameters["distance"]
               issues == validate_query_ret.issues
               reported(message, severity) ==
                   \E i \in 1..Len(issues) :
                       issues[i].message = message /\ issues[i].severity = severity
           IN /\ distance <= 0
                    => reported("buffer distance must be greater than zero", "error")
              /\ distance > LargeBufferDistance
                    => /\ reported("very large buffer distance", "warning")
                       /\ ~reported("very large buffer distance", "error")
                       /\ validated_intent.input_layer # None => ~AnyError(issues)

\* C26: validate_nlp_command reports the missing_required_parameters risk
\* exactly for the intents that lack a parameter their operation requires
\* (buffer: input layer and distance; clip, intersection, union: input layer
\* and overlay layer; select: input layer and expression).
C26_MissingParametersRiskExact ==
    prevention_ret.called
        => LET operation == validated_intent.operation
               lacks == \/ /\ operation \in {"buffer", "clip", "intersection", "union", "select"}
                           /\ validated_intent.input_layer = None
                        \/ /\ operation = "buffer"
                           /\ ~Has(validated_intent.parameters, "distance")
                        \/ /\ operation \in {"clip", "intersection", "union"}
                           /\ validated_intent.secondary_layer = None
                        \/ /\ operation = "select"
                           /\ ~Has(validated_intent.parameters, "expression")
               reported == \E i \in 1..Len(prevention_ret.issues) :
                               /\ Has(prevention_ret.issues[i], "rule_id")
                               /\ prevention_ret.issues[i].rule_id = "missing_required_parameters"
           IN reported <=> lacks

\* C28: on every intent NLPQueryParser.validate_query returns an issue of
\* severity error if and only if ProactiveErrorPrevention.validate_nlp_command
\* does.
C28_ValidatorsAgreeOnBlocking ==
    (validate_query_ret.called /\ prevention_ret.called)
        => (AnyError(validate_query_ret.issues) <=> AnyError(prevention_ret.issues))

(***************************************************************************)
(* Properties of the parameter resolver.                                   *)
(***************************************************************************)
\* C23: resolve_parameters("buffer", params, context) with no distance in
\* params and a context that carries a scale sets distance from the scale:
\* 5000 above 1,000,000; 1000 above 100,000; 200 above 10,000; 50 above
\* 1,000; otherwise 10.
C23_DistanceFromScale ==
    (/\ resolve_ret.called
     /\ resolve_call.operation_type = "buffer"
     /\ ~Has(resolve_call.parsed_params, "distance")
     /\ Has(resolve_call.context, "scale"))
        => LET scale == resolve_call.context["scale"]
           IN resolve_ret.resolved_params["distance"] =
                  (IF scale > 1000000 THEN 5000
                   ELSE IF scale > 100000 THEN 1000
                   ELSE IF scale > 10000 THEN 200
                   ELSE IF scale > 1000 THEN 50
                   ELSE 10)

(***************************************************************************)
(* Properties of the batch optimizer.                                      *)
(***************************************************************************)
\* C25: optimize_query_sequence returns one intent for every intent of the
\* batch, each carrying in original_sequence_index its position in the
\* input and keeping that intent's operation and layers; the operations
\* come by non-decreasing priority (select 1, buffer 2, clip 3,
\* intersection 4, union 5, any other last), and intents of the same
\* operation keep the order they had in the input.
C25_SequenceByPriority ==
    sequence_ret.called
        => LET queries == sequence_call
               out == sequence_ret.optimized_sequence
               index(k) == out[k].original_sequence_index
           IN /\ Len(out) = Len(queries)
              /\ \A k \in DOMAIN out :
                    /\ index(k) \in 0..(Len(queries) - 1)
                    /\ out[k].operation = queries[index(k) + 1].operation
                    /\ out[k].input_layer = queries[index(k) + 1].input_layer
                    /\ out[k].secondary_layer = queries[index(k) + 1].secondary_layer
              /\ \A j, k \in DOMAIN out :
                    j < k =>
                        /\ index(j) # index(k)
                        /\ operation_priority(out[j].operation)
                               <= operation_priority(out[k].operation)
                        /\ out[j].operation = out[k].operation => index(j) < index(k)

\* a batch of three that is reordered and holds two intents of one operation
C25_Witness ==
    /\ sequence_ret.called
    /\ Len(sequence_call) = 3
    /\ sequence_call[1].operation = "union"
    /\ sequence_call[2].operation = "select"
    /\ sequence_call[3].operation = "union"
    /\ sequence_ret.optimized_sequence[1].original_sequence_index = 1
    /\ sequence_ret.optimized_sequence[3].original_sequence_index = 2

(***************************************************************************)
(* Properties of persisting the transaction log.                           *)
(***************************************************************************)
\* C29: when log_operation cannot persist the log because the parameters of
\* the new record cannot be serialized, it still returns a transaction id
\* and keeps the record in memory, and the log file holds a well-formed list
\* of the records persisted before; no start-up finds the file corrupt and
\* sets the earlier history aside.
C29_FailedSaveKeepsHistory ==
    /\ (/\ ret.op = "log_operation"
        /\ Len(transactions) >= 2
        /\ \A i \in 1..(Len(transactions) - 1) : json_serializable(transactions[i])
        /\ ~json_serializable(transactions[Len(transactions)]))
           => /\ ret.id = transactions[Len(transactions)].transaction_id
              /\ transaction_log_file.valid
              /\ transaction_log_file.content
                     = SubSeq(transactions, 1, Len(transactions) - 1)
    /\ backups = {}

(***************************************************************************)
(* Properties of the optimizer's effect on its argument.                   *)
(***************************************************************************)
\* C30: optimize_query and add_warnings_for_expensive_queries leave the
\* intent passed to them as it was: its parameters, its optimizations and
\* its warnings have the same value after the call as before, also when the
\* intent is the result of an earlier call.
C30_InputLeftUnchanged ==
    frame_call.called
        => IntentValue(intents, objects, frame_call.input) = frame_call.before

====
